---- MODULE Spec2Model ----
(***************************************************************************)
(* SysLint: a linter for a SysML v2 style modelling language.              *)
(*                                                                         *)
(* The model follows the pipeline of syslint._lint_file:                   *)
(*     Lexer(source).tokenize()  ->  Parser(tokens).parse()  ->            *)
(*     check_file(ast, rule_ids)                                           *)
(* Text is modelled as a sequence of one-character strings, so that the    *)
(* string operations of the code (slicing, strip, split, join, lower,      *)
(* startswith) are computed character by character.                        *)
(***************************************************************************)
EXTENDS Naturals, Sequences, FiniteSets, TLC

VARIABLES
    source,     \* Lexer.source
    pos,        \* Lexer.pos
    line,       \* Lexer.line
    col,        \* Lexer.col
    tokens,     \* the list built by Lexer.tokenize
    p_tokens,   \* Parser._tokens
    p_pos,      \* Parser._pos
    stack,      \* the active _parse_body calls, innermost last
    iterations, \* passes through the `while True` loop of _parse_body so far
    path,       \* the path given to _lint_file
    file,       \* the File returned by Parser.parse
    rule_ids,   \* the rule_ids argument of check_file
    diags,      \* the list returned by check_file
    phase,      \* where _lint_file stands, or main around it
    args,       \* main: the parsed command line (None when _lint_file is called alone)
    file_index, \* main: how many of args.files the loop has handled
    all_diags,  \* main: all_diags
    exit_code,  \* main: the value main returns
    history     \* per file handled by main: what _lint_file computed for it

main_vars == <<args, file_index, all_diags, exit_code, history>>

vars == <<source, path, pos, line, col, tokens, p_tokens, p_pos, stack, iterations,
          file, rule_ids, diags, phase, args, file_index, all_diags, exit_code, history>>

\* Python's None, by the type of the value that may be absent: a str (a
\* sequence of characters), one character, an object (Token, Element, File)
\* and a set.
None == <<"None">>
NoneChar == "None"
NoneObject == [none |-> TRUE]
NoneSet == {"None"}

-----------------------------------------------------------------------------
(* Characters and the str methods the code uses.                           *)

UpperLetters ==
    {"A","B","C","D","E","F","G","H","I","J","K","L","M",
     "N","O","P","Q","R","S","T","U","V","W","X","Y","Z"}

LowerLetters ==
    {"a","b","c","d","e","f","g","h","i","j","k","l","m",
     "n","o","p","q","r","s","t","u","v","w","x","y","z"}

Digits == {"0","1","2","3","4","5","6","7","8","9"}

\* The characters str.strip() and _skip_whitespace treat as blank.
Whitespace == {" ", "\t", "\r", "\n"}

Punctuation ==
    {"!", "\"", "#", "$", "%", "&", "'", "(", ")", "*", "+", ",", "-", ".", "/",
     ":", ";", "<", "=", ">", "?", "@", "[", "\\", "]", "^", "_", "{", "|",
     "}", "~"}

Chars == UpperLetters \cup LowerLetters \cup Digits \cup Whitespace \cup Punctuation

isalpha(ch) == ch \in UpperLetters \cup LowerLetters
isdigit(ch) == ch \in Digits
isalnum(ch) == isalpha(ch) \/ isdigit(ch)

\* s[start:end] for 0 <= start <= end <= len(s).
Slice(s, start, end) == SubSeq(s, start + 1, end)

\* s[p:].startswith(prefix)
StartsWithAt(s, p, prefix) ==
    /\ p + Len(prefix) <= Len(s)
    /\ \A i \in 1..Len(prefix) : s[p + i] = prefix[i]

startswith(s, prefix) == StartsWithAt(s, 0, prefix)

endswith(s, suffix) ==
    /\ Len(suffix) <= Len(s)
    /\ StartsWithAt(s, Len(s) - Len(suffix), suffix)

-----------------------------------------------------------------------------
(* token_types.py                                                          *)

Token(type, value, ln, cl) == [type |-> type, value |-> value, line |-> ln, col |-> cl]

KEYWORDS ==
  (<<"a","b","o","u","t">> :> "ABOUT") @@
  (<<"a","b","s","t","r","a","c","t">> :> "ABSTRACT") @@
  (<<"a","c","c","e","p","t">> :> "ACCEPT") @@
  (<<"a","c","t","i","o","n">> :> "ACTION") @@
  (<<"a","c","t","o","r">> :> "ACTOR") @@
  (<<"a","f","t","e","r">> :> "AFTER") @@
  (<<"a","l","i","a","s">> :> "ALIAS") @@
  (<<"a","l","l">> :> "ALL") @@
  (<<"a","l","l","o","c","a","t","e">> :> "ALLOCATE") @@
  (<<"a","l","l","o","c","a","t","i","o","n">> :> "ALLOCATION") @@
  (<<"a","n","a","l","y","s","i","s">> :> "ANALYSIS") @@
  (<<"a","n","d">> :> "AND") @@
  (<<"a","s">> :> "AS") @@
  (<<"a","s","s","e","r","t">> :> "ASSERT") @@
  (<<"a","s","s","i","g","n">> :> "ASSIGN") @@
  (<<"a","s","s","o","c">> :> "ASSOC") @@
  (<<"a","s","s","u","m","e">> :> "ASSUME") @@
  (<<"a","t">> :> "AT") @@
  (<<"a","t","t","r","i","b","u","t","e">> :> "ATTRIBUTE") @@
  (<<"b","e","h","a","v","i","o","r">> :> "BEHAVIOR") @@
  (<<"b","i","n","d">> :> "BIND") @@
  (<<"b","i","n","d","i","n","g">> :> "BINDING") @@
  (<<"b","o","o","l">> :> "BOOL") @@
  (<<"b","y">> :> "BY") @@
  (<<"c","a","l","c">> :> "CALC") @@
  (<<"c","a","s","e">> :> "CASE") @@
  (<<"c","h","a","i","n","s">> :> "CHAINS") @@
  (<<"c","l","a","s","s">> :> "CLASS") @@
  (<<"c","l","a","s","s","i","f","i","e","r">> :> "CLASSIFIER") @@
  (<<"c","o","m","m","e","n","t">> :> "COMMENT") @@
  (<<"c","o","m","p","o","s","i","t","e">> :> "COMPOSITE") @@
  (<<"c","o","n","c","e","r","n">> :> "CONCERN") @@
  (<<"c","o","n","j","u","g","a","t","e">> :> "CONJUGATE") @@
  (<<"c","o","n","j","u","g","a","t","e","s">> :> "CONJUGATES") @@
  (<<"c","o","n","j","u","g","a","t","i","o","n">> :> "CONJUGATION") @@
  (<<"c","o","n","n","e","c","t">> :> "CONNECT") @@
  (<<"c","o","n","n","e","c","t","i","o","n">> :> "CONNECTION") @@
  (<<"c","o","n","n","e","c","t","o","r">> :> "CONNECTOR") @@
  (<<"c","o","n","s","t">> :> "CONST") @@
  (<<"c","o","n","s","t","a","n","t">> :> "CONSTANT") @@
  (<<"c","o","n","s","t","r","a","i","n","t">> :> "CONSTRAINT") @@
  (<<"c","r","o","s","s","e","s">> :> "CROSSES") @@
  (<<"d","a","t","a","t","y","p","e">> :> "DATATYPE") @@
  (<<"d","e","c","i","d","e">> :> "DECIDE") @@
  (<<"d","e","f">> :> "DEF") @@
  (<<"d","e","f","a","u","l","t">> :> "DEFAULT") @@
  (<<"d","e","f","i","n","e","d">> :> "DEFINED") @@
  (<<"d","e","p","e","n","d","e","n","c","y">> :> "DEPENDENCY") @@
  (<<"d","e","r","i","v","e","d">> :> "DERIVED") @@
  (<<"d","i","f","f","e","r","e","n","c","e","s">> :> "DIFFERENCES") @@
  (<<"d","i","s","j","o","i","n","i","n","g">> :> "DISJOINING") @@
  (<<"d","i","s","j","o","i","n","t">> :> "DISJOINT") @@
  (<<"d","o">> :> "DO") @@
  (<<"d","o","c">> :> "DOC") @@
  (<<"e","l","s","e">> :> "ELSE") @@
  (<<"e","n","d">> :> "END") @@
  (<<"e","n","t","r","y">> :> "ENTRY") @@
  (<<"e","n","u","m">> :> "ENUM") @@
  (<<"e","v","e","n","t">> :> "EVENT") @@
  (<<"e","x","h","i","b","i","t">> :> "EXHIBIT") @@
  (<<"e","x","i","t">> :> "EXIT") @@
  (<<"e","x","p","o","s","e">> :> "EXPOSE") @@
  (<<"e","x","p","r">> :> "EXPR") @@
  (<<"f","a","l","s","e">> :> "FALSE") @@
  (<<"f","e","a","t","u","r","e">> :> "FEATURE") @@
  (<<"f","e","a","t","u","r","e","d">> :> "FEATURED") @@
  (<<"f","e","a","t","u","r","i","n","g">> :> "FEATURING") @@
  (<<"f","i","l","t","e","r">> :> "FILTER") @@
  (<<"f","i","r","s","t">> :> "FIRST") @@
  (<<"f","l","o","w">> :> "FLOW") @@
  (<<"f","o","r">> :> "FOR") @@
  (<<"f","o","r","k">> :> "FORK") @@
  (<<"f","r","a","m","e">> :> "FRAME") @@
  (<<"f","r","o","m">> :> "FROM") @@
  (<<"f","u","n","c","t","i","o","n">> :> "FUNCTION") @@
  (<<"h","a","s","t","y","p","e">> :> "HASTYPE") @@
  (<<"i","f">> :> "IF") @@
  (<<"i","m","p","l","i","e","s">> :> "IMPLIES") @@
  (<<"i","m","p","o","r","t">> :> "IMPORT") @@
  (<<"i","n">> :> "IN") @@
  (<<"i","n","c","l","u","d","e">> :> "INCLUDE") @@
  (<<"i","n","d","i","v","i","d","u","a","l">> :> "INDIVIDUAL") @@
  (<<"i","n","o","u","t">> :> "INOUT") @@
  (<<"i","n","t","e","r","a","c","t","i","o","n">> :> "INTERACTION") @@
  (<<"i","n","t","e","r","f","a","c","e">> :> "INTERFACE") @@
  (<<"i","n","t","e","r","s","e","c","t","s">> :> "INTERSECTS") @@
  (<<"i","n","v">> :> "INV") @@
  (<<"i","n","v","e","r","s","e">> :> "INVERSE") @@
  (<<"i","n","v","e","r","t","i","n","g">> :> "INVERTING") @@
  (<<"i","s","t","y","p","e">> :> "ISTYPE") @@
  (<<"i","t","e","m">> :> "ITEM") @@
  (<<"j","o","i","n">> :> "JOIN") @@
  (<<"l","a","n","g","u","a","g","e">> :> "LANGUAGE") @@
  (<<"l","i","b","r","a","r","y">> :> "LIBRARY") @@
  (<<"l","o","c","a","l","e">> :> "LOCALE") @@
  (<<"l","o","o","p">> :> "LOOP") @@
  (<<"m","e","m","b","e","r">> :> "MEMBER") @@
  (<<"m","e","r","g","e">> :> "MERGE") @@
  (<<"m","e","s","s","a","g","e">> :> "MESSAGE") @@
  (<<"m","e","t","a">> :> "META") @@
  (<<"m","e","t","a","c","l","a","s","s">> :> "METACLASS") @@
  (<<"m","e","t","a","d","a","t","a">> :> "METADATA") @@
  (<<"m","u","l","t","i","p","l","i","c","i","t","y">> :> "MULTIPLICITY") @@
  (<<"n","a","m","e","s","p","a","c","e">> :> "NAMESPACE") @@
  (<<"n","e","w">> :> "NEW") @@
  (<<"n","o","n","u","n","i","q","u","e">> :> "NONUNIQUE") @@
  (<<"n","o","t">> :> "NOT") @@
  (<<"n","u","l","l">> :> "NULL") @@
  (<<"o","b","j","e","c","t","i","v","e">> :> "OBJECTIVE") @@
  (<<"o","c","c","u","r","r","e","n","c","e">> :> "OCCURRENCE") @@
  (<<"o","f">> :> "OF") @@
  (<<"o","r">> :> "OR") @@
  (<<"o","r","d","e","r","e","d">> :> "ORDERED") @@
  (<<"o","u","t">> :> "OUT") @@
  (<<"p","a","c","k","a","g","e">> :> "PACKAGE") @@
  (<<"p","a","r","a","l","l","e","l">> :> "PARALLEL") @@
  (<<"p","a","r","t">> :> "PART") @@
  (<<"p","e","r","f","o","r","m">> :> "PERFORM") @@
  (<<"p","o","r","t">> :> "PORT") @@
  (<<"p","o","r","t","i","o","n">> :> "PORTION") @@
  (<<"p","r","e","d","i","c","a","t","e">> :> "PREDICATE") @@
  (<<"p","r","i","v","a","t","e">> :> "PRIVATE") @@
  (<<"p","r","o","t","e","c","t","e","d">> :> "PROTECTED") @@
  (<<"p","u","b","l","i","c">> :> "PUBLIC") @@
  (<<"r","e","d","e","f","i","n","e","s">> :> "REDEFINES") @@
  (<<"r","e","d","e","f","i","n","i","t","i","o","n">> :> "REDEFINITION") @@
  (<<"r","e","f">> :> "REF") @@
  (<<"r","e","f","e","r","e","n","c","e","s">> :> "REFERENCES") @@
  (<<"r","e","n","d","e","r">> :> "RENDER") @@
  (<<"r","e","n","d","e","r","i","n","g">> :> "RENDERING") @@
  (<<"r","e","p">> :> "REP") @@
  (<<"r","e","q","u","i","r","e">> :> "REQUIRE") @@
  (<<"r","e","q","u","i","r","e","m","e","n","t">> :> "REQUIREMENT") @@
  (<<"r","e","t","u","r","n">> :> "RETURN") @@
  (<<"s","a","t","i","s","f","y">> :> "SATISFY") @@
  (<<"s","e","n","d">> :> "SEND") @@
  (<<"s","n","a","p","s","h","o","t">> :> "SNAPSHOT") @@
  (<<"s","p","e","c","i","a","l","i","z","a","t","i","o","n">> :> "SPECIALIZATION") @@
  (<<"s","p","e","c","i","a","l","i","z","e","s">> :> "SPECIALIZES") @@
  (<<"s","t","a","k","e","h","o","l","d","e","r">> :> "STAKEHOLDER") @@
  (<<"s","t","a","n","d","a","r","d">> :> "STANDARD") @@
  (<<"s","t","a","t","e">> :> "STATE") @@
  (<<"s","t","e","p">> :> "STEP") @@
  (<<"s","t","r","u","c","t">> :> "STRUCT") @@
  (<<"s","u","b","c","l","a","s","s","i","f","i","e","r">> :> "SUBCLASSIFIER") @@
  (<<"s","u","b","j","e","c","t">> :> "SUBJECT") @@
  (<<"s","u","b","s","e","t">> :> "SUBSET") @@
  (<<"s","u","b","s","e","t","s">> :> "SUBSETS") @@
  (<<"s","u","b","t","y","p","e">> :> "SUBTYPE") @@
  (<<"s","u","c","c","e","s","s","i","o","n">> :> "SUCCESSION") @@
  (<<"t","e","r","m","i","n","a","t","e">> :> "TERMINATE") @@
  (<<"t","h","e","n">> :> "THEN") @@
  (<<"t","i","m","e","s","l","i","c","e">> :> "TIMESLICE") @@
  (<<"t","o">> :> "TO") @@
  (<<"t","r","a","n","s","i","t","i","o","n">> :> "TRANSITION") @@
  (<<"t","r","u","e">> :> "TRUE") @@
  (<<"t","y","p","e">> :> "TYPE") @@
  (<<"t","y","p","e","d">> :> "TYPED") @@
  (<<"t","y","p","i","n","g">> :> "TYPING") @@
  (<<"u","n","i","o","n","s">> :> "UNIONS") @@
  (<<"u","n","t","i","l">> :> "UNTIL") @@
  (<<"u","s","e">> :> "USE") @@
  (<<"v","a","r">> :> "VAR") @@
  (<<"v","a","r","i","a","n","t">> :> "VARIANT") @@
  (<<"v","a","r","i","a","t","i","o","n">> :> "VARIATION") @@
  (<<"v","e","r","i","f","i","c","a","t","i","o","n">> :> "VERIFICATION") @@
  (<<"v","e","r","i","f","y">> :> "VERIFY") @@
  (<<"v","i","a">> :> "VIA") @@
  (<<"v","i","e","w">> :> "VIEW") @@
  (<<"v","i","e","w","p","o","i","n","t">> :> "VIEWPOINT") @@
  (<<"w","h","e","n">> :> "WHEN") @@
  (<<"w","h","i","l","e">> :> "WHILE") @@
  (<<"x","o","r">> :> "XOR")

-----------------------------------------------------------------------------
(* lexer.py: a cursor c is the Lexer's (pos, line, col).                   *)

\* A Lexer whose line and col are shared by all instances instead of set anew.
LexerInitShared == [pos |-> 0, line |-> line, col |-> col]

Lexer_init == [pos |-> 0, line |-> 1, col |-> 1]

Lexer_ch(src, c) == IF c.pos < Len(src) THEN src[c.pos + 1] ELSE NoneChar

Lexer_peek(src, c) == IF c.pos + 1 < Len(src) THEN src[c.pos + 2] ELSE NoneChar

\* _advance counting the line up without setting the column back.
AdvanceKeepsCol(src, c) ==
    IF src[c.pos + 1] = "\n"
    THEN [pos |-> c.pos + 1, line |-> c.line + 1, col |-> c.col + 1]
    ELSE [pos |-> c.pos + 1, line |-> c.line, col |-> c.col + 1]

Lexer_advance(src, c) ==
    IF src[c.pos + 1] = "\n"
    THEN [pos |-> c.pos + 1, line |-> c.line + 1, col |-> 1]
    ELSE [pos |-> c.pos + 1, line |-> c.line, col |-> c.col + 1]

\* while self.pos < len(self.source) and self.source[self.pos] in S: self._advance()
RECURSIVE AdvanceWhile(_, _, _)
AdvanceWhile(src, c, S) ==
    IF c.pos < Len(src) /\ src[c.pos + 1] \in S
    THEN AdvanceWhile(src, Lexer_advance(src, c), S)
    ELSE c

_skip_whitespace(src, c) == AdvanceWhile(src, c, Whitespace)

\* The loop of the block comment branch, entered after the opening marker.
RECURSIVE BlockCommentLoop(_, _)
BlockCommentLoop(src, c) ==
    IF c.pos < Len(src)
    THEN IF src[c.pos + 1] = "*" /\ Lexer_peek(src, c) = "/"
         THEN Lexer_advance(src, Lexer_advance(src, c))
         ELSE BlockCommentLoop(src, Lexer_advance(src, c))
    ELSE c

\* _lex_number taking a `.` behind the digits whatever follows it.
LexNumberAnyDot(src, c) ==
    LET c1 == AdvanceWhile(src, c, Digits)
        hasFrac == Lexer_ch(src, c1) = "."
        c2 == IF hasFrac THEN AdvanceWhile(src, Lexer_advance(src, c1), Digits) ELSE c1
    IN  [tok |-> Token(IF hasFrac THEN "REAL" ELSE "INTEGER",
                       Slice(src, c.pos, c2.pos), c.line, c.col),
         cur |-> c2]

\* _lex_number reading the integer digits only: no fraction, no exponent.
LexNumberDigitsOnly(src, c) ==
    LET c1 == AdvanceWhile(src, c, Digits)
    IN  [tok |-> Token("INTEGER", Slice(src, c.pos, c1.pos), c.line, c.col), cur |-> c1]

_lex_number(src, c) ==
    LET c1 == AdvanceWhile(src, c, Digits)
        hasFrac == /\ Lexer_ch(src, c1) = "."
                   /\ Lexer_peek(src, c1) # NoneChar
                   /\ isdigit(Lexer_peek(src, c1))
        c2 == IF hasFrac THEN AdvanceWhile(src, Lexer_advance(src, c1), Digits) ELSE c1
        hasExp == Lexer_ch(src, c2) \in {"e", "E"}
        c3 == IF hasExp THEN Lexer_advance(src, c2) ELSE c2
        c4 == IF hasExp /\ Lexer_ch(src, c3) \in {"+", "-"}
              THEN Lexer_advance(src, c3) ELSE c3
        c5 == IF hasExp THEN AdvanceWhile(src, c4, Digits) ELSE c4
        is_real == hasFrac \/ hasExp
    IN  [tok |-> Token(IF is_real THEN "REAL" ELSE "INTEGER",
                       Slice(src, c.pos, c5.pos), c.line, c.col),
         cur |-> c5]

\* The loop of _lex_string closing at any quote, escaped or not.
RECURSIVE StringLoopNoEscape(_, _, _)
StringLoopNoEscape(src, c, quote) ==
    IF c.pos < Len(src)
    THEN IF src[c.pos + 1] = quote THEN Lexer_advance(src, c)
         ELSE StringLoopNoEscape(src, Lexer_advance(src, c), quote)
    ELSE c

\* The loop of _lex_string, entered after the opening quote.
RECURSIVE StringLoop(_, _, _)
StringLoop(src, c, quote) ==
    IF c.pos < Len(src)
    THEN LET ch == src[c.pos + 1]
             c1 == Lexer_advance(src, c)
         IN  IF ch = "\\"
             THEN StringLoop(src, IF c1.pos < Len(src) THEN Lexer_advance(src, c1) ELSE c1,
                             quote)
             ELSE IF ch = quote THEN c1
             ELSE StringLoop(src, c1, quote)
    ELSE c

_lex_string(src, c, quote, tok_type) ==
    LET c1 == StringLoop(src, Lexer_advance(src, c), quote)
    IN  [tok |-> Token(tok_type, Slice(src, c.pos, c1.pos), c.line, c.col), cur |-> c1]

_SINGLE ==
    ("#" :> "HASH") @@ ("$" :> "DOLLAR") @@ ("%" :> "PERCENT") @@ ("&" :> "AMP") @@
    ("(" :> "LPAREN") @@ (")" :> "RPAREN") @@ ("+" :> "PLUS") @@ ("," :> "COMMA") @@
    ("/" :> "SLASH") @@ (";" :> "SEMI") @@ ("[" :> "LBRACK") @@ ("]" :> "RBRACK") @@
    ("^" :> "CARET") @@ ("{" :> "LBRACE") @@ ("|" :> "PIPE") @@ ("}" :> "RBRACE") @@
    ("~" :> "TILDE")

\* An operator token of n characters starting at c (c1 is the cursor after the first).
OpToken(src, c, c1, n, type) ==
    LET c2 == IF n >= 2 THEN Lexer_advance(src, c1) ELSE c1
        c3 == IF n >= 3 THEN Lexer_advance(src, c2) ELSE c2
    IN  [tok |-> Token(type, Slice(src, c.pos, c.pos + n), c.line, c.col), cur |-> c3]

\* Operator branches that know the forms of two characters only.
LexOperatorShortest(src, c, ch) ==
    LET c1 == Lexer_advance(src, c)
        two == IF c1.pos < Len(src) THEN <<ch, src[c1.pos + 1]>> ELSE <<>>
        twos == { <<"!","=">>, <<"*","*">>, <<"-",">">>, <<".",".">>, <<".","?">>,
                  <<":",":">>, <<":","=">>, <<":",">">>, <<"<","=">>, <<"=","=">>,
                  <<"=",">">>, <<">","=">>, <<"?","?">>, <<"@","@">> }
    IN  IF two \in twos
        THEN [tok |-> Token("IDENTIFIER", two, c.line, c.col), cur |-> Lexer_advance(src, c1)]
        ELSE [tok |-> Token("IDENTIFIER", <<ch>>, c.line, c.col), cur |-> c1]

\* The operator branches of _next_token: ch has been consumed, c1 is the cursor
\* after it and rest is the text from c1.
LexOperator(src, c, ch) ==
    LET c1 == Lexer_advance(src, c)
        rest(prefix) == StartsWithAt(src, c1.pos, prefix)
        op(n, type) == OpToken(src, c, c1, n, type)
    IN  CASE ch = "!" ->
               IF rest(<<"=","=">>) THEN op(3, "BANG_EQ_EQ")
               ELSE IF rest(<<"=">>) THEN op(2, "BANG_EQ")
               ELSE op(1, "IDENTIFIER")
          [] ch = ":" ->
               IF rest(<<":",">">>) THEN op(3, "COLON_COLON_GT")
               ELSE IF rest(<<">",">">>) THEN op(3, "COLON_GT_GT")
               ELSE IF rest(<<":">>) THEN op(2, "COLON_COLON")
               ELSE IF rest(<<">">>) THEN op(2, "COLON_GT")
               ELSE IF rest(<<"=">>) THEN op(2, "COLON_EQ")
               ELSE op(1, "COLON")
          [] ch = "=" ->
               IF rest(<<"=","=">>) THEN op(3, "EQ_EQ_EQ")
               ELSE IF rest(<<"=">>) THEN op(2, "EQ_EQ")
               ELSE IF rest(<<">">>) THEN op(2, "FAT_ARROW")
               ELSE op(1, "EQ")
          [] ch = "*" ->
               IF rest(<<"*">>) THEN op(2, "STAR_STAR") ELSE op(1, "STAR")
          [] ch = "-" ->
               IF rest(<<">">>) THEN op(2, "ARROW") ELSE op(1, "MINUS")
          [] ch = "." ->
               IF rest(<<".">>) THEN op(2, "DOT_DOT")
               ELSE IF rest(<<"?">>) THEN op(2, "DOT_QUESTION")
               ELSE op(1, "DOT")
          [] ch = "<" ->
               IF rest(<<"=">>) THEN op(2, "LE") ELSE op(1, "LT")
          [] ch = ">" ->
               IF rest(<<"=">>) THEN op(2, "GE") ELSE op(1, "GT")
          [] ch = "?" ->
               IF rest(<<"?">>) THEN op(2, "QUESTION_QUESTION") ELSE op(1, "QUESTION")
          [] ch = "@" ->
               IF rest(<<"@">>) THEN op(2, "AT_AT") ELSE op(1, "AT_SIGN")
          [] OTHER ->
               IF ch \in DOMAIN _SINGLE THEN op(1, _SINGLE[ch])
               ELSE op(1, "IDENTIFIER")

\* One call of Lexer._next_token from cursor c0: the token and the cursor after it.
_next_token(src, c0) ==
    LET c == _skip_whitespace(src, c0)
        ch == src[c.pos + 1]
    IN  IF c.pos >= Len(src)
        THEN [tok |-> Token("EOF", <<>>, c.line, c.col), cur |-> c]
        ELSE IF ch = "/" /\ Lexer_peek(src, c) = "/"
        THEN LET c1 == AdvanceWhile(src, c, Chars \ {"\n"})
             IN  [tok |-> Token("LINE_COMMENT", Slice(src, c.pos, c1.pos), c.line, c.col),
                  cur |-> c1]
        ELSE IF ch = "/" /\ Lexer_peek(src, c) = "*"
        THEN LET c1 == BlockCommentLoop(src, Lexer_advance(src, Lexer_advance(src, c)))
             IN  [tok |-> Token("BLOCK_COMMENT", Slice(src, c.pos, c1.pos), c.line, c.col),
                  cur |-> c1]
        ELSE IF isalpha(ch) \/ ch = "_"
        THEN LET c1 == AdvanceWhile(src, c, UpperLetters \cup LowerLetters \cup Digits \cup {"_"})
                 value == Slice(src, c.pos, c1.pos)
                 tok_type == IF value \in DOMAIN KEYWORDS THEN KEYWORDS[value]
                             ELSE "IDENTIFIER"
             IN  [tok |-> Token(tok_type, value, c.line, c.col), cur |-> c1]
        ELSE IF isdigit(ch)
        THEN _lex_number(src, c)
        ELSE IF ch = "." /\ Lexer_peek(src, c) # NoneChar /\ isdigit(Lexer_peek(src, c))
        THEN _lex_number(src, c)
        ELSE IF ch = "'"
        THEN _lex_string(src, c, "'", "STRING")
        ELSE IF ch = "\""
        THEN _lex_string(src, c, "\"", "DOUBLE_STRING")
        ELSE LexOperator(src, c, ch)

\* Lexer.tokenize from cursor c: _next_token until EOF has been appended.
RECURSIVE TokenizeFrom(_, _)
TokenizeFrom(src, c) ==
    LET r == _next_token(src, c)
    IN  IF r.tok.type = "EOF" THEN <<r.tok>> ELSE <<r.tok>> \o TokenizeFrom(src, r.cur)

tokenize(src) == TokenizeFrom(src, Lexer_init)

-----------------------------------------------------------------------------
(* More str methods, used by the parser and the rules.                     *)

RECURSIVE lstrip(_, _)
lstrip(s, set) == IF s # <<>> /\ Head(s) \in set THEN lstrip(Tail(s), set) ELSE s

RECURSIVE rstrip(_, _)
rstrip(s, set) ==
    IF s # <<>> /\ s[Len(s)] \in set THEN rstrip(SubSeq(s, 1, Len(s) - 1), set) ELSE s

strip(s, set) == rstrip(lstrip(s, set), set)

\* sep.join(parts)
RECURSIVE join(_, _)
join(sep, parts) ==
    IF parts = <<>> THEN <<>>
    ELSE IF Len(parts) = 1 THEN parts[1]
    ELSE parts[1] \o sep \o join(sep, Tail(parts))

\* s.split(sep) for a non-empty sep: cur is the piece being read from position i.
RECURSIVE SplitFrom(_, _, _, _)
SplitFrom(s, sep, i, cur) ==
    IF i >= Len(s) THEN <<cur>>
    ELSE IF StartsWithAt(s, i, sep)
    THEN <<cur>> \o SplitFrom(s, sep, i + Len(sep), <<>>)
    ELSE SplitFrom(s, sep, i + 1, Append(cur, s[i + 1]))

split(s, sep) == SplitFrom(s, sep, 0, <<>>)

\* s.splitlines(): breaks at \n, \r and \r\n; no empty last line.
RECURSIVE SplitLinesFrom(_, _, _)
SplitLinesFrom(s, i, cur) ==
    IF i >= Len(s) THEN (IF cur = <<>> THEN <<>> ELSE <<cur>>)
    ELSE IF s[i + 1] = "\r" /\ i + 1 < Len(s) /\ s[i + 2] = "\n"
    THEN <<cur>> \o SplitLinesFrom(s, i + 2, <<>>)
    ELSE IF s[i + 1] \in {"\n", "\r"}
    THEN <<cur>> \o SplitLinesFrom(s, i + 1, <<>>)
    ELSE SplitLinesFrom(s, i + 1, Append(cur, s[i + 1]))

splitlines(s) == SplitLinesFrom(s, 0, <<>>)

ToLower(ch) ==
    CASE ch = "A" -> "a" [] ch = "B" -> "b" [] ch = "C" -> "c" [] ch = "D" -> "d"
      [] ch = "E" -> "e" [] ch = "F" -> "f" [] ch = "G" -> "g" [] ch = "H" -> "h"
      [] ch = "I" -> "i" [] ch = "J" -> "j" [] ch = "K" -> "k" [] ch = "L" -> "l"
      [] ch = "M" -> "m" [] ch = "N" -> "n" [] ch = "O" -> "o" [] ch = "P" -> "p"
      [] ch = "Q" -> "q" [] ch = "R" -> "r" [] ch = "S" -> "s" [] ch = "T" -> "t"
      [] ch = "U" -> "u" [] ch = "V" -> "v" [] ch = "W" -> "w" [] ch = "X" -> "x"
      [] ch = "Y" -> "y" [] ch = "Z" -> "z" [] OTHER -> ch

lower(s) == [i \in 1..Len(s) |-> ToLower(s[i])]

\* Python truth of an Optional[str]: neither None nor empty.
Truthy(s) == s # None /\ s # <<>>

-----------------------------------------------------------------------------
(* ast_nodes.py                                                            *)

Element(kind, is_def, name, type_ref, ln, cl) ==
    [kind |-> kind, is_def |-> is_def, name |-> name, type_ref |-> type_ref,
     specializes |-> <<>>, multiplicity |-> None, body |-> <<>>, doc |-> None,
     modifiers |-> <<>>, line |-> ln, col |-> cl,
     import_path |-> None, import_star |-> FALSE]

File(filename, elements) == [filename |-> filename, elements |-> elements]

-----------------------------------------------------------------------------
(* parser.py: keyword sets                                                 *)

_VISIBILITY ==
  {
    "PRIVATE", "PROTECTED", "PUBLIC"
  }

_PREFIX_MODIFIERS ==
  {
    "ABSTRACT", "COMPOSITE", "CONST", "CONSTANT", "DERIVED", "INDIVIDUAL", "LIBRARY",
    "NONUNIQUE", "ORDERED", "PORTION", "REF", "STANDARD", "VAR", "VARIANT", "VARIATION"
  }

_ELEMENT_KEYWORDS ==
  {
    "ACTION", "ACTOR", "ALLOCATION", "ANALYSIS", "ASSOC", "ATTRIBUTE", "BEHAVIOR", "CALC",
    "CLASS", "CLASSIFIER", "CONCERN", "CONNECTION", "CONNECTOR", "CONSTRAINT", "DATATYPE",
    "DECIDE", "ENUM", "FEATURE", "FILTER", "FLOW", "FORK", "FRAME", "FUNCTION", "INTERACTION",
    "INTERFACE", "ITEM", "JOIN", "MERGE", "METADATA", "MULTIPLICITY", "NAMESPACE", "OBJECTIVE",
    "OCCURRENCE", "PACKAGE", "PART", "PORT", "PREDICATE", "RENDERING", "REQUIREMENT",
    "STAKEHOLDER", "STATE", "STEP", "STRUCT", "SUBJECT", "SUCCESSION", "TRANSITION", "TYPE",
    "VERIFICATION", "VIEW", "VIEWPOINT"
  }

_BODY_ONLY_KEYWORDS ==
  {
    "ACCEPT", "ALIAS", "ASSERT", "BIND", "CONJUGATION", "DEPENDENCY", "DISJOINING", "DO",
    "ELSE", "ENTRY", "EXHIBIT", "EXIT", "EXPOSE", "FEATURING", "IF", "INCLUDE", "MEMBER",
    "PERFORM", "REDEFINES", "SATISFY", "SEND", "SPECIALIZATION", "SUBSETS", "TYPING", "VERIFY",
    "WHEN"
  }

_SEQUENCE_KEYWORDS ==
  {
    "FIRST", "THEN"
  }

_DIRECTION_KEYWORDS ==
  {
    "IN", "INOUT", "OUT"
  }

-----------------------------------------------------------------------------
(* parser.py: token stream helpers.  toks is Parser._tokens and p is       *)
(* Parser._pos; a sub-parser returns its value with the cursor after it.   *)

_cur(toks, p) == IF p < Len(toks) THEN toks[p + 1] ELSE Token("EOF", <<>>, 0, 0)

Parser_peek(toks, p) == _cur(toks, p + 1)

_at(toks, p, types) == _cur(toks, p).type \in types

\* The cursor after self._eat(*types).
_eat(toks, p, types) == IF _at(toks, p, types) THEN p + 1 ELSE p

\* Parser.__init__: line comments are dropped.
Parser_tokens(toks) == SelectSeq(toks, LAMBDA t : t.type # "LINE_COMMENT")

_strip_comment(text) ==
    LET s0 == strip(text, Whitespace)
        s1 == IF startswith(s0, <<"/","*">>) THEN Slice(s0, 2, Len(s0)) ELSE s0
        s2 == IF endswith(s1, <<"*","/">>) THEN Slice(s1, 0, Len(s1) - 2) ELSE s1
        raw == splitlines(s2)
        lines == [i \in 1..Len(raw) |->
                     strip(lstrip(strip(raw[i], Whitespace), {"*"}), Whitespace)]
        kept == SelectSeq(lines, LAMBDA ln : ln # <<>>)
    IN  strip(join(<<"\n">>, kept), Whitespace)

_parse_name_token(toks, p) ==
    IF _at(toks, p, {"IDENTIFIER"}) THEN [val |-> _cur(toks, p).value, pos |-> p + 1]
    ELSE IF _at(toks, p, {"STRING"})
    THEN [val |-> strip(_cur(toks, p).value, {"'"}), pos |-> p + 1]
    ELSE [val |-> None, pos |-> p]

\* The `while self._at(COLON_COLON, DOT)` loop of _parse_qualified_name.
RECURSIVE QualifiedNameLoop(_, _, _)
QualifiedNameLoop(toks, p, parts) ==
    IF _at(toks, p, {"COLON_COLON", "DOT"})
    THEN LET seg == _parse_name_token(toks, p + 1)
         IN  IF Truthy(seg.val)
             THEN QualifiedNameLoop(toks, seg.pos, Append(parts, seg.val))
             ELSE IF _at(toks, seg.pos, {"STAR"})
             THEN QualifiedNameLoop(toks, seg.pos + 1, Append(parts, <<"*">>))
             ELSE QualifiedNameLoop(toks, seg.pos, parts)
    ELSE [val |-> join(<<":",":">>, parts), pos |-> p]

_parse_qualified_name(toks, p) ==
    LET tok == _parse_name_token(toks, p)
    IN  QualifiedNameLoop(toks, tok.pos, IF Truthy(tok.val) THEN <<tok.val>> ELSE <<>>)

\* The loop of _parse_multiplicity, after the opening bracket.
RECURSIVE MultiplicityLoop(_, _, _)
MultiplicityLoop(toks, p, parts) ==
    IF ~ _at(toks, p, {"RBRACK", "EOF"})
    THEN MultiplicityLoop(toks, p + 1, Append(parts, _cur(toks, p).value))
    ELSE [val |-> <<"[">> \o join(<<>>, parts) \o <<"]">>, pos |-> _eat(toks, p, {"RBRACK"})]

_parse_multiplicity(toks, p) ==
    IF ~ _at(toks, p, {"LBRACK"}) THEN [val |-> <<>>, pos |-> p]
    ELSE MultiplicityLoop(toks, p + 1, <<>>)

_parse_identification(toks, p) ==
    IF _at(toks, p, {"LT"})
    THEN _parse_name_token(toks, _eat(toks, _parse_name_token(toks, p + 1).pos, {"GT"}))
    ELSE _parse_name_token(toks, p)

\* The cursor after self._eat_identification().
_eat_identification(toks, p) == _parse_identification(toks, p).pos

-----------------------------------------------------------------------------
(* parser.py: the three recovery primitives, each the cursor it leaves.    *)

\* The loop of _skip_block at nesting depth `depth`.
RECURSIVE SkipBlockLoop(_, _, _)
SkipBlockLoop(toks, p, depth) ==
    IF ~ _at(toks, p, {"EOF"}) /\ depth > 0
    THEN IF _at(toks, p, {"LBRACE"}) THEN SkipBlockLoop(toks, p + 1, depth + 1)
         ELSE IF _at(toks, p, {"RBRACE"}) THEN SkipBlockLoop(toks, p + 1, depth - 1)
         ELSE SkipBlockLoop(toks, p + 1, depth)
    ELSE p

\* _skip_block that stops after the first `}`, whatever the nesting.
SkipBlockFlat(toks, p) ==
    LET stops == {i \in (p + 1)..Len(toks) : toks[i].type \in {"RBRACE", "EOF"}}
        first == CHOOSE i \in stops : \A j \in stops : i <= j
    IN  IF toks[first].type = "RBRACE" THEN first ELSE first - 1

_skip_block(toks, p) == SkipBlockLoop(toks, p, 1)

RECURSIVE SkipToEndScan(_, _)
SkipToEndScan(toks, p) ==
    IF ~ _at(toks, p, {"SEMI", "LBRACE", "RBRACE", "EOF"})
    THEN SkipToEndScan(toks, p + 1)
    ELSE p

_skip_to_end(toks, p) ==
    LET q == SkipToEndScan(toks, p)
    IN  IF _at(toks, q, {"SEMI"}) THEN q + 1
        ELSE IF _at(toks, q, {"LBRACE"}) THEN _skip_block(toks, q + 1)
        ELSE q

\* A skip that ends at the first `;` or closing bracket whatever the depth.
RECURSIVE SkipExpressionFlat(_, _, _)
SkipExpressionFlat(toks, p, depth) ==
    IF _at(toks, p, {"EOF", "RBRACE", "RPAREN", "RBRACK"}) THEN p
    ELSE IF _at(toks, p, {"SEMI"}) THEN p + 1
    ELSE SkipExpressionFlat(toks, p + 1, depth)

\* The loop of _skip_expression at bracket depth `depth`.
RECURSIVE SkipExpressionLoop(_, _, _)
SkipExpressionLoop(toks, p, depth) ==
    IF ~ _at(toks, p, {"EOF"})
    THEN IF _at(toks, p, {"LBRACE", "LPAREN", "LBRACK"})
         THEN SkipExpressionLoop(toks, p + 1, depth + 1)
         ELSE IF _at(toks, p, {"RBRACE", "RPAREN", "RBRACK"})
         THEN IF depth = 0 THEN p ELSE SkipExpressionLoop(toks, p + 1, depth - 1)
         ELSE IF _at(toks, p, {"SEMI"}) /\ depth = 0 THEN p + 1
         ELSE SkipExpressionLoop(toks, p + 1, depth)
    ELSE p

_skip_expression(toks, p) == SkipExpressionLoop(toks, p, 0)

-----------------------------------------------------------------------------
(* parser.py: elements.  A parse result is the cursor, the element (or     *)
(* None) and `open`: whether the element's `{` has just been consumed, so  *)
(* that _parse_body is to be called for its children.                      *)

Closed(p, elem) == [pos |-> p, elem |-> elem, open |-> FALSE]

\* A list of qualified names in which each name read is put in front.
RECURSIVE QualifiedNameListPrepending(_, _, _)
QualifiedNameListPrepending(toks, p, names) ==
    LET qn == _parse_qualified_name(toks, p)
    IN  IF _at(toks, qn.pos, {"COMMA"})
        THEN QualifiedNameListPrepending(toks, qn.pos + 1, <<qn.val>> \o names)
        ELSE [val |-> <<qn.val>> \o names, pos |-> qn.pos]

\* qualified_name (, qualified_name)* appended to names.
RECURSIVE QualifiedNameList(_, _, _)
QualifiedNameList(toks, p, names) ==
    LET qn == _parse_qualified_name(toks, p)
    IN  IF _at(toks, qn.pos, {"COMMA"})
        THEN QualifiedNameList(toks, qn.pos + 1, Append(names, qn.val))
        ELSE [val |-> Append(names, qn.val), pos |-> qn.pos]

_parse_element_tail(toks, elem, p0) ==
    LET \* Relationship body, on the element e and the cursor p reached
        Body(e, p) ==
            IF _at(toks, p, {"EQ"}) THEN Closed(_skip_expression(toks, p + 1), e)
            ELSE IF _at(toks, p, {"LBRACE"}) THEN [pos |-> p + 1, elem |-> e, open |-> TRUE]
            ELSE Closed(_eat(toks, p, {"SEMI"}), e)
        \* Multiplicity if not already consumed
        SetMultiplicity(e, m) == Body([e EXCEPT !.multiplicity = m.val], m.pos)
        LateMultiplicity(e, p) ==
            IF e.multiplicity = None /\ _at(toks, p, {"LBRACK"})
            THEN SetMultiplicity(e, _parse_multiplicity(toks, p))
            ELSE Body(e, p)
        \* Redefinition
        Redefinition(e, p) ==
            LateMultiplicity(e, IF _at(toks, p, {"COLON_GT_GT", "REDEFINES"})
                                THEN _parse_qualified_name(toks, p + 1).pos ELSE p)
        \* Specialisation
        SetSpecializes(e, sp) == Redefinition([e EXCEPT !.specializes = sp.val], sp.pos)
        Specialisation(e, p) ==
            IF _at(toks, p, {"COLON_GT", "SPECIALIZES"})
            THEN SetSpecializes(e, QualifiedNameList(toks, p + 1, e.specializes))
            ELSE Redefinition(e, p)
        \* Type annotation
        SetType(qn, m) ==
            Specialisation([elem EXCEPT !.type_ref = qn.val, !.multiplicity = m.val], m.pos)
        TypeMultiplicity(qn) ==
            SetType(qn, IF _at(toks, qn.pos, {"LBRACK"}) THEN _parse_multiplicity(toks, qn.pos)
                        ELSE [val |-> None, pos |-> qn.pos])
    IN  IF _at(toks, p0, {"COLON"})
        THEN TypeMultiplicity(_parse_qualified_name(toks, _eat(toks, p0 + 1, {"TYPED"})))
        ELSE Specialisation(elem, p0)

\* _parse_element_tail after `children = self._parse_body(top_level=False)`.
TailAfterBody(toks, elem, children, p) ==
    LET docs == SelectSeq(children, LAMBDA child : child.kind = <<"d","o","c">>)
        doc == IF elem.doc = None /\ docs # <<>> THEN docs[1].doc ELSE elem.doc
    IN  Closed(_eat(toks, p, {"RBRACE"}), [elem EXCEPT !.body = children, !.doc = doc])

\* The `while self._eat(COLON_COLON)` loop of _parse_import.
RECURSIVE ImportPathLoop(_, _, _)
ImportPathLoop(toks, p, path_parts) ==
    IF _at(toks, p, {"COLON_COLON"})
    THEN LET n == _parse_name_token(toks, p + 1)
         IN  ImportPathLoop(toks, n.pos,
                            IF Truthy(n.val) THEN Append(path_parts, n.val) ELSE path_parts)
    ELSE [val |-> path_parts, pos |-> p]

_parse_import(toks, p, ln, cl, modifiers) ==
    LET name == _parse_name_token(toks, _eat(toks, p + 1, {"ALL"}))
        lp == ImportPathLoop(toks, name.pos,
                             IF Truthy(name.val) THEN <<name.val>> ELSE <<>>)
        lastStar == lp.val # <<>> /\ lp.val[Len(lp.val)] = <<"*">>
        path_parts == IF lastStar THEN SubSeq(lp.val, 1, Len(lp.val) - 1) ELSE lp.val
        is_star == lastStar \/ _at(toks, lp.pos, {"STAR"})
        p1 == _eat(toks, lp.pos, {"STAR"})
        p2 == IF _at(toks, p1, {"LBRACE"}) THEN _skip_block(toks, p1 + 1)
              ELSE _eat(toks, p1, {"SEMI"})
    IN  Closed(p2, [Element(<<"i","m","p","o","r","t">>, FALSE, None, None, ln, cl) EXCEPT
                       !.modifiers = modifiers,
                       !.import_path = join(<<":",":">>, path_parts),
                       !.import_star = is_star])

\* The cursor after the optional `locale "..."`.
EatLocale(toks, p) ==
    IF _at(toks, p, {"LOCALE"}) THEN _eat(toks, p + 1, {"DOUBLE_STRING"}) ELSE p

_parse_doc(toks, p, ln, cl, pending) ==
    LET p1 == EatLocale(toks, _eat_identification(toks, p + 1))
        here == _at(toks, p1, {"BLOCK_COMMENT"})
        doc_text == IF here THEN _strip_comment(_cur(toks, p1).value)
                    ELSE IF pending # NoneObject THEN _strip_comment(pending.value)
                    ELSE None
    IN  Closed(IF here THEN p1 + 1 ELSE p1,
               [Element(<<"d","o","c">>, FALSE, None, None, ln, cl) EXCEPT !.doc = doc_text])

_parse_comment_kw(toks, p, ln, cl) ==
    LET p1 == _eat_identification(toks, p + 1)
        p2 == IF _at(toks, p1, {"ABOUT"}) THEN QualifiedNameList(toks, p1 + 1, <<>>).pos
              ELSE p1
        p3 == EatLocale(toks, p2)
        here == _at(toks, p3, {"BLOCK_COMMENT"})
        doc_text == IF here THEN _strip_comment(_cur(toks, p3).value) ELSE None
    IN  Closed(IF here THEN p3 + 1 ELSE p3,
               [Element(<<"c","o","m","m","e","n","t">>, FALSE, None, None, ln, cl) EXCEPT !.doc = doc_text])

_parse_require_or_assume(toks, p, ln, cl, modifiers) ==
    IF _at(toks, p + 1, {"CONSTRAINT"})
    THEN Closed(IF _at(toks, p + 2, {"LBRACE"}) THEN _skip_block(toks, p + 3)
                ELSE _eat(toks, p + 2, {"SEMI"}),
                [Element(<<"r","e","q","u","i","r","e","_","c","o","n","s","t","r","a","i","n","t">>, FALSE, None, None, ln, cl) EXCEPT
                    !.modifiers = modifiers])
    ELSE Closed(_skip_to_end(toks, p + 1), NoneObject)

\* elem.doc from the pending block comment, if there is one.
WithPendingDoc(elem, pending) ==
    IF pending # NoneObject THEN [elem EXCEPT !.doc = _strip_comment(pending.value)] ELSE elem

\* A use case branch that names the kind after `def` and leaves is_def unset.
UseCaseNeverDef(toks, p, ln, cl, modifiers, pending) ==
    LET is_def == _at(toks, p + 2, {"DEF"})
        name == _parse_identification(toks, _eat(toks, p + 2, {"DEF"}))
        elem == [Element(IF is_def THEN <<"u","s","e","_","c","a","s","e","_","d","e","f">> ELSE <<"u","s","e","_","c","a","s","e">>, FALSE,
                         name.val, None, ln, cl) EXCEPT !.modifiers = modifiers]
    IN  _parse_element_tail(toks, WithPendingDoc(elem, pending), name.pos)

_parse_use_case(toks, p, ln, cl, modifiers, pending) ==
    LET is_def == _at(toks, p + 2, {"DEF"})
        name == _parse_identification(toks, _eat(toks, p + 2, {"DEF"}))
        elem == [Element(IF is_def THEN <<"u","s","e","_","c","a","s","e","_","d","e","f">> ELSE <<"u","s","e","_","c","a","s","e">>, is_def,
                         name.val, None, ln, cl) EXCEPT !.modifiers = modifiers]
    IN  _parse_element_tail(toks, WithPendingDoc(elem, pending), name.pos)

\* `while self._cur().type in _PREFIX_MODIFIERS: modifiers.append(...)`
RECURSIVE PrefixModifierLoop(_, _, _)
PrefixModifierLoop(toks, p, modifiers) ==
    IF _at(toks, p, _PREFIX_MODIFIERS)
    THEN PrefixModifierLoop(toks, p + 1, Append(modifiers, _cur(toks, p).value))
    ELSE [val |-> modifiers, pos |-> p]

\* The sequencing branch: first name; / then name;
ParseSequence(toks, p, ln, cl) ==
    LET seq_name == _parse_name_token(toks, p + 1)
    IN  Closed(_eat(toks, seq_name.pos, {"SEMI"}),
               Element(_cur(toks, p).value, FALSE, seq_name.val, None, ln, cl))

\* The return branch, after RETURN has been consumed.
ParseReturnParam(toks, p, ln, cl) ==
    LET ret_name == _parse_name_token(toks, p)
        typed == _at(toks, ret_name.pos, {"COLON"})
        ret_type == _parse_qualified_name(toks, ret_name.pos + 1)
        p1 == IF typed THEN ret_type.pos ELSE ret_name.pos
    IN  Closed(_eat(toks, p1, {"SEMI"}),
               [Element(<<"r","e","t","u","r","n","_","p","a","r","a","m">>, FALSE, ret_name.val,
                        IF typed THEN ret_type.val ELSE None, ln, cl)
                   EXCEPT !.modifiers = <<<<"r","e","t","u","r","n">>>>])

\* The parameter branch: a direction keyword was consumed and IDENTIFIER is next.
ParseParameter(toks, p, ln, cl, modifiers) ==
    LET typed == _at(toks, p + 1, {"COLON"})
        param_type == _parse_qualified_name(toks, p + 2)
        p1 == IF typed THEN param_type.pos ELSE p + 1
        hasMult == _at(toks, p1, {"LBRACK"})
        mult == _parse_multiplicity(toks, p1)
        p2 == IF hasMult THEN mult.pos ELSE p1
    IN  Closed(_eat(toks, p2, {"SEMI"}),
               [Element(<<"p","a","r","a","m","e","t","e","r">>, FALSE, _cur(toks, p).value,
                        IF typed THEN param_type.val ELSE None, ln, cl)
                   EXCEPT !.multiplicity = IF hasMult THEN mult.val ELSE None,
                          !.modifiers = modifiers])

\* The general element: primary keyword, optional def, identification, tail.
ParseGeneral(toks, p, ln, cl, modifiers, pending) ==
    LET primary == _cur(toks, p)
        is_def == _at(toks, p + 1, {"DEF"})
        kind == primary.value \o (IF is_def THEN <<"_","d","e","f">> ELSE <<>>)
        name == _parse_identification(toks, _eat(toks, p + 1, {"DEF"}))
        elem == [Element(kind, is_def, name.val, None, ln, cl) EXCEPT
                    !.modifiers = modifiers]
    IN  _parse_element_tail(toks, WithPendingDoc(elem, pending), name.pos)

_parse_element(toks, p0, pending_comment) ==
    IF _at(toks, p0, {"SEMI"}) THEN Closed(p0 + 1, NoneObject)
    ELSE
    LET ln == _cur(toks, p0).line
        cl == _cur(toks, p0).col
        vis == _at(toks, p0, _VISIBILITY)
        pm == PrefixModifierLoop(toks, IF vis THEN p0 + 1 ELSE p0,
                                 IF vis THEN <<_cur(toks, p0).value>> ELSE <<>>)
        p1 == pm.pos
        hasDir == _at(toks, p1, _DIRECTION_KEYWORDS)
        modifiers == IF hasDir THEN Append(pm.val, _cur(toks, p1).value) ELSE pm.val
        p2 == IF hasDir THEN p1 + 1 ELSE p1
    IN  IF _at(toks, p1, {"COLON_GT_GT", "COLON_COLON_GT", "COLON_GT"})
        THEN Closed(_skip_to_end(toks, p1), NoneObject)
        ELSE IF _at(toks, p1, {"IMPORT"}) THEN _parse_import(toks, p1, ln, cl, pm.val)
        ELSE IF _at(toks, p1, {"DOC"}) THEN _parse_doc(toks, p1, ln, cl, pending_comment)
        ELSE IF _at(toks, p1, {"COMMENT"}) THEN _parse_comment_kw(toks, p1, ln, cl)
        ELSE IF _at(toks, p1, {"REQUIRE", "ASSUME"})
        THEN _parse_require_or_assume(toks, p1, ln, cl, pm.val)
        ELSE IF _at(toks, p1, _SEQUENCE_KEYWORDS) THEN ParseSequence(toks, p1, ln, cl)
        ELSE IF _at(toks, p1, {"RETURN"}) THEN ParseReturnParam(toks, p1 + 1, ln, cl)
        ELSE IF _at(toks, p2, {"USE"}) /\ Parser_peek(toks, p2).type = "CASE"
        THEN _parse_use_case(toks, p2, ln, cl, modifiers, pending_comment)
        ELSE IF _at(toks, p2, _BODY_ONLY_KEYWORDS) THEN Closed(_skip_to_end(toks, p2), NoneObject)
        ELSE IF _at(toks, p2, {"AT_SIGN", "AT_AT"}) THEN Closed(_skip_to_end(toks, p2), NoneObject)
        ELSE IF ~ _at(toks, p2, _ELEMENT_KEYWORDS)
        THEN IF hasDir /\ _at(toks, p2, {"IDENTIFIER"})
             THEN ParseParameter(toks, p2, ln, cl, modifiers)
             ELSE Closed(IF ~ _at(toks, p2, {"EOF", "RBRACE"}) THEN p2 + 1 ELSE p2, NoneObject)
        ELSE ParseGeneral(toks, p2, ln, cl, modifiers, pending_comment)

\* `while self._at(BLOCK_COMMENT): pending_comment = self._advance()`
RECURSIVE PendingCommentLoop(_, _, _)
PendingCommentLoop(toks, p, pending_comment) ==
    IF _at(toks, p, {"BLOCK_COMMENT"})
    THEN PendingCommentLoop(toks, p + 1, _cur(toks, p))
    ELSE [val |-> pending_comment, pos |-> p]

\* Whether the loop of _parse_body breaks at cursor p.
BodyEnds(toks, p, top_level) ==
    _at(toks, p, {"EOF"}) \/ (~ top_level /\ _at(toks, p, {"RBRACE"}))

\* One pass through the `while True` loop of _parse_body: either the loop
\* breaks (at cursor pos) or _parse_element is called.
BodyPass(toks, p, top_level) ==
    LET Break(q) == [break |-> TRUE, pos |-> q, elem |-> NoneObject, open |-> FALSE]
        Parsed(r) == [break |-> FALSE, pos |-> r.pos, elem |-> r.elem, open |-> r.open]
        AfterComments(pc) ==
            IF BodyEnds(toks, pc.pos, top_level) THEN Break(pc.pos)
            ELSE Parsed(_parse_element(toks, pc.pos, pc.val))
    IN  IF BodyEnds(toks, p, top_level) THEN Break(p)
        ELSE AfterComments(PendingCommentLoop(toks, p, NoneObject))

-----------------------------------------------------------------------------
(* diagnostic.py                                                           *)

\* A diagnostic that reports a duplicate name as an error.
DiagnosticDuplicateAsError(rule_id, severity, message, filename, ln, cl) ==
    [rule_id |-> rule_id, severity |-> IF rule_id = "W030" THEN "error" ELSE severity,
     message |-> message, filename |-> filename, line |-> ln, col |-> cl]

Diagnostic(rule_id, severity, message, filename, ln, cl) ==
    [rule_id |-> rule_id, severity |-> severity, message |-> message,
     filename |-> filename, line |-> ln, col |-> cl]

\* Severity.order
order(severity) == CASE severity = "error" -> 0 [] severity = "warning" -> 1
                     [] severity = "info" -> 2

\* The characters in code point order: ord(ch) is the index of ch.
CodePoints ==
    <<"\t", "\n", "\r", " ", "!", "\"", "#", "$", "%", "&", "'", "(", ")", "*", "+",
      ",", "-", ".", "/", "0", "1", "2", "3", "4", "5", "6", "7", "8", "9", ":", ";",
      "<", "=", ">", "?", "@", "A", "B", "C", "D", "E", "F", "G", "H", "I", "J", "K",
      "L", "M", "N", "O", "P", "Q", "R", "S", "T", "U", "V", "W", "X", "Y", "Z", "[",
      "\\", "]", "^", "_", "a", "b", "c", "d", "e", "f", "g", "h", "i", "j", "k",
      "l", "m", "n", "o", "p", "q", "r", "s", "t", "u", "v", "w", "x", "y", "z", "{",
      "|", "}", "~">>

ord(ch) == CHOOSE i \in 1..Len(CodePoints) : CodePoints[i] = ch

\* a < b on str
RECURSIVE StrLt(_, _)
StrLt(a, b) ==
    IF b = <<>> THEN FALSE
    ELSE IF a = <<>> THEN TRUE
    ELSE IF Head(a) = Head(b) THEN StrLt(Tail(a), Tail(b))
    ELSE ord(Head(a)) < ord(Head(b))

\* An ordering that breaks ties of (filename, line, col) by Severity.order.
DiagnosticLtSeverity(self, other) ==
    IF self.filename # other.filename THEN StrLt(self.filename, other.filename)
    ELSE IF self.line # other.line THEN self.line < other.line
    ELSE IF self.col # other.col THEN self.col < other.col
    ELSE order(self.severity) < order(other.severity)

\* Diagnostic.__lt__: (filename, line, col) < (filename, line, col)
Diagnostic_lt(self, other) ==
    IF self.filename # other.filename THEN StrLt(self.filename, other.filename)
    ELSE IF self.line # other.line THEN self.line < other.line
    ELSE self.col < other.col

\* sorted(list): stable, and compares with __lt__ only.  x goes after every
\* element it is not less than.
RECURSIVE InsertSorted(_, _)
InsertSorted(sortedList, x) ==
    IF sortedList = <<>> THEN <<x>>
    ELSE LET last == sortedList[Len(sortedList)]
         IN  IF Diagnostic_lt(x, last)
             THEN Append(InsertSorted(SubSeq(sortedList, 1, Len(sortedList) - 1), x), last)
             ELSE Append(sortedList, x)

\* check_file returning the concatenation as it is.
Unsorted(list) == list

RECURSIVE sorted(_)
sorted(list) ==
    IF list = <<>> THEN <<>>
    ELSE InsertSorted(sorted(SubSeq(list, 1, Len(list) - 1)), list[Len(list)])

\* str(n) for n >= 0
RECURSIVE str(_)
str(n) ==
    LET digit == <<"0", "1", "2", "3", "4", "5", "6", "7", "8", "9">>[(n % 10) + 1]
    IN  IF n < 10 THEN <<digit>> ELSE Append(str(n \div 10), digit)

-----------------------------------------------------------------------------
(* rules/naming.py                                                         *)

Naming_DEF_KINDS ==
  {
    <<"a","c","t","i","o","n","_","d","e","f">>,
    <<"a","l","l","o","c","a","t","i","o","n","_","d","e","f">>,
    <<"a","n","a","l","y","s","i","s","_","d","e","f">>,
    <<"a","s","s","o","c","_","d","e","f">>,
    <<"a","t","t","r","i","b","u","t","e","_","d","e","f">>,
    <<"b","e","h","a","v","i","o","r","_","d","e","f">>, <<"c","a","l","c","_","d","e","f">>,
    <<"c","l","a","s","s","_","d","e","f">>,
    <<"c","l","a","s","s","i","f","i","e","r","_","d","e","f">>,
    <<"c","o","n","c","e","r","n","_","d","e","f">>,
    <<"c","o","n","n","e","c","t","i","o","n","_","d","e","f">>,
    <<"c","o","n","n","e","c","t","o","r","_","d","e","f">>,
    <<"c","o","n","s","t","r","a","i","n","t","_","d","e","f">>,
    <<"d","a","t","a","t","y","p","e","_","d","e","f">>, <<"e","n","u","m","_","d","e","f">>,
    <<"f","e","a","t","u","r","e","_","d","e","f">>, <<"f","l","o","w","_","d","e","f">>,
    <<"f","r","a","m","e","_","d","e","f">>,
    <<"f","u","n","c","t","i","o","n","_","d","e","f">>,
    <<"i","n","t","e","r","a","c","t","i","o","n","_","d","e","f">>,
    <<"i","n","t","e","r","f","a","c","e","_","d","e","f">>,
    <<"i","t","e","m","_","d","e","f">>, <<"m","e","t","a","d","a","t","a","_","d","e","f">>,
    <<"o","c","c","u","r","r","e","n","c","e","_","d","e","f">>,
    <<"p","a","r","t","_","d","e","f">>, <<"p","o","r","t","_","d","e","f">>,
    <<"p","r","e","d","i","c","a","t","e","_","d","e","f">>,
    <<"r","e","n","d","e","r","i","n","g","_","d","e","f">>,
    <<"r","e","q","u","i","r","e","m","e","n","t","_","d","e","f">>,
    <<"s","t","a","k","e","h","o","l","d","e","r","_","d","e","f">>,
    <<"s","t","a","t","e","_","d","e","f">>, <<"s","t","r","u","c","t","_","d","e","f">>,
    <<"s","u","c","c","e","s","s","i","o","n","_","d","e","f">>,
    <<"t","r","a","n","s","i","t","i","o","n","_","d","e","f">>,
    <<"t","y","p","e","_","d","e","f">>, <<"u","s","e","_","c","a","s","e","_","d","e","f">>,
    <<"v","e","r","i","f","i","c","a","t","i","o","n","_","d","e","f">>,
    <<"v","i","e","w","_","d","e","f">>, <<"v","i","e","w","p","o","i","n","t","_","d","e","f">>
  }

_USAGE_KINDS ==
  {
    <<"a","c","t","i","o","n">>, <<"a","l","l","o","c","a","t","i","o","n">>,
    <<"a","n","a","l","y","s","i","s">>, <<"a","s","s","o","c">>,
    <<"a","t","t","r","i","b","u","t","e">>, <<"b","e","h","a","v","i","o","r">>,
    <<"c","a","l","c">>, <<"c","l","a","s","s">>, <<"c","l","a","s","s","i","f","i","e","r">>,
    <<"c","o","n","c","e","r","n">>, <<"c","o","n","n","e","c","t","i","o","n">>,
    <<"c","o","n","n","e","c","t","o","r">>, <<"c","o","n","s","t","r","a","i","n","t">>,
    <<"d","a","t","a","t","y","p","e">>, <<"f","e","a","t","u","r","e">>, <<"f","l","o","w">>,
    <<"f","r","a","m","e">>, <<"f","u","n","c","t","i","o","n">>,
    <<"i","n","t","e","r","a","c","t","i","o","n">>, <<"i","n","t","e","r","f","a","c","e">>,
    <<"i","t","e","m">>, <<"m","e","t","a","d","a","t","a">>,
    <<"o","c","c","u","r","r","e","n","c","e">>, <<"p","a","r","t">>, <<"p","o","r","t">>,
    <<"p","r","e","d","i","c","a","t","e">>, <<"r","e","n","d","e","r","i","n","g">>,
    <<"r","e","q","u","i","r","e","m","e","n","t">>,
    <<"s","t","a","k","e","h","o","l","d","e","r">>, <<"s","t","a","t","e">>,
    <<"s","t","r","u","c","t">>, <<"s","u","c","c","e","s","s","i","o","n">>,
    <<"t","r","a","n","s","i","t","i","o","n">>, <<"t","y","p","e">>,
    <<"u","s","e","_","c","a","s","e">>, <<"v","i","e","w">>,
    <<"v","i","e","w","p","o","i","n","t">>
  }

_PACKAGE_KINDS ==
  {
    <<"n","a","m","e","s","p","a","c","e">>, <<"p","a","c","k","a","g","e">>
  }

\* re's `$`: the end of the string, or just before a newline that ends it.
MatchesToEnd(name, first, rest) ==
    LET body == IF name # <<>> /\ name[Len(name)] = "\n"
                THEN {name, SubSeq(name, 1, Len(name) - 1)} ELSE {name}
    IN  \E s \in body : /\ s # <<>>
                        /\ s[1] \in first
                        /\ \A i \in 2..Len(s) : s[i] \in rest

_is_pascal_case(name) ==
    MatchesToEnd(name, UpperLetters, UpperLetters \cup LowerLetters \cup Digits)

_is_camel_or_snake(name) ==
    MatchesToEnd(name, LowerLetters, UpperLetters \cup LowerLetters \cup Digits \cup {"_"})

_is_quoted(name) == startswith(name, <<"'">>)

ToUpper(ch) ==
    IF \E u \in UpperLetters : ToLower(u) = ch /\ u # ch
    THEN CHOOSE u \in UpperLetters : ToLower(u) = ch
    ELSE ch

\* str.capitalize()
capitalize(w) == [i \in 1..Len(w) |-> IF i = 1 THEN ToUpper(w[i]) ELSE ToLower(w[i])]

\* re.split(r"[_\s]+", name)
RECURSIVE WordsFrom(_, _, _)
WordsFrom(name, i, cur) ==
    IF i >= Len(name) THEN <<cur>>
    ELSE IF name[i + 1] \in Whitespace \cup {"_"}
    THEN IF i > 0 /\ name[i] \in Whitespace \cup {"_"}
         THEN WordsFrom(name, i + 1, cur)
         ELSE <<cur>> \o WordsFrom(name, i + 1, <<>>)
    ELSE WordsFrom(name, i + 1, Append(cur, name[i + 1]))

Words(name) == WordsFrom(name, 0, <<>>)

\* "".join(w.capitalize() for w in words if w)
RECURSIVE CapitalizeAll(_)
CapitalizeAll(words) ==
    IF words = <<>> THEN <<>>
    ELSE (IF words[1] # <<>> THEN capitalize(words[1]) ELSE <<>>)
         \o CapitalizeAll(Tail(words))

_to_pascal(name) == CapitalizeAll(Words(name))

_to_camel(name) ==
    LET words == Words(name) IN lower(words[1]) \o CapitalizeAll(Tail(words))

NamingRule_visit(elem, filename) ==
    LET name == elem.name
    IN  IF ~ Truthy(name) \/ _is_quoted(name) THEN <<>>
        ELSE IF elem.kind \in _PACKAGE_KINDS
        THEN IF ~ _is_pascal_case(name)
             THEN <<Diagnostic("W003", "warning",
                               <<"P","a","c","k","a","g","e","/","n","a","m","e","s","p","a","c","e"," ","'">> \o name
                                 \o <<"'"," ","s","h","o","u","l","d"," ","u","s","e"," ","P","a","s","c","a","l","C","a","s","e"," ","(","e",".","g","."," ","'">>
                                 \o _to_pascal(name) \o <<"'",")",".">>,
                               filename, elem.line, elem.col)>>
             ELSE <<>>
        ELSE IF elem.kind \in Naming_DEF_KINDS
        THEN IF ~ _is_pascal_case(name)
             THEN <<Diagnostic("W001", "warning",
                               <<"D","e","f","i","n","i","t","i","o","n"," ","'">> \o name
                                 \o <<"'"," ","s","h","o","u","l","d"," ","u","s","e"," ","P","a","s","c","a","l","C","a","s","e"," ","(","e",".","g","."," ","'">>
                                 \o _to_pascal(name) \o <<"'",")",".">>,
                               filename, elem.line, elem.col)>>
             ELSE <<>>
        ELSE IF elem.kind \in _USAGE_KINDS /\ ~ _is_camel_or_snake(name)
        THEN <<Diagnostic("W002", "warning",
                          <<"U","s","a","g","e"," ","'">> \o name
                            \o <<"'"," ","s","h","o","u","l","d"," ","u","s","e"," ","c","a","m","e","l","C","a","s","e"," ","o","r"," ","s","n","a","k","e","_","c","a","s","e"," ","(","e",".","g","."," ","'">>
                            \o _to_camel(name) \o <<"'",")",".">>,
                          filename, elem.line, elem.col)>>
        ELSE <<>>

-----------------------------------------------------------------------------
(* rules/documentation.py                                                  *)

_DEF_KINDS ==
  {
    <<"a","c","t","i","o","n","_","d","e","f">>,
    <<"a","l","l","o","c","a","t","i","o","n","_","d","e","f">>,
    <<"a","n","a","l","y","s","i","s","_","d","e","f">>,
    <<"a","s","s","o","c","_","d","e","f">>,
    <<"a","t","t","r","i","b","u","t","e","_","d","e","f">>,
    <<"b","e","h","a","v","i","o","r","_","d","e","f">>, <<"c","a","l","c","_","d","e","f">>,
    <<"c","l","a","s","s","_","d","e","f">>,
    <<"c","l","a","s","s","i","f","i","e","r","_","d","e","f">>,
    <<"c","o","n","n","e","c","t","i","o","n","_","d","e","f">>,
    <<"c","o","n","n","e","c","t","o","r","_","d","e","f">>,
    <<"c","o","n","s","t","r","a","i","n","t","_","d","e","f">>,
    <<"d","a","t","a","t","y","p","e","_","d","e","f">>, <<"e","n","u","m","_","d","e","f">>,
    <<"f","u","n","c","t","i","o","n","_","d","e","f">>,
    <<"i","n","t","e","r","a","c","t","i","o","n","_","d","e","f">>,
    <<"i","n","t","e","r","f","a","c","e","_","d","e","f">>,
    <<"i","t","e","m","_","d","e","f">>, <<"m","e","t","a","d","a","t","a","_","d","e","f">>,
    <<"o","c","c","u","r","r","e","n","c","e","_","d","e","f">>,
    <<"p","a","r","t","_","d","e","f">>, <<"p","o","r","t","_","d","e","f">>,
    <<"p","r","e","d","i","c","a","t","e","_","d","e","f">>,
    <<"r","e","n","d","e","r","i","n","g","_","d","e","f">>,
    <<"r","e","q","u","i","r","e","m","e","n","t","_","d","e","f">>,
    <<"s","t","a","t","e","_","d","e","f">>, <<"s","t","r","u","c","t","_","d","e","f">>,
    <<"u","s","e","_","c","a","s","e","_","d","e","f">>, <<"v","i","e","w","_","d","e","f">>,
    <<"v","i","e","w","p","o","i","n","t","_","d","e","f">>
  }

_MIN_DOC_LEN == 5

DocumentationRule_visit(elem, filename) ==
    LET is_def == elem.kind \in _DEF_KINDS
        is_req == elem.kind = <<"r","e","q","u","i","r","e","m","e","n","t","_","d","e","f">>
        has_doc == elem.doc # None /\ Len(strip(elem.doc, Whitespace)) >= _MIN_DOC_LEN
    IN  IF ~ is_def /\ elem.kind \notin _PACKAGE_KINDS THEN <<>>
        ELSE IF ~ Truthy(elem.name) THEN <<>>
        ELSE IF is_req /\ ~ has_doc
        THEN <<Diagnostic("W011", "warning",
                          <<"R","e","q","u","i","r","e","m","e","n","t"," ","d","e","f","i","n","i","t","i","o","n"," ","'">> \o elem.name
                            \o <<"'"," ","i","s"," ","m","i","s","s","i","n","g"," ","a"," ","d","o","c"," ","b","l","o","c","k","."," ","R","e","q","u","i","r","e","m","e","n","t","s"," ","s","h","o","u","l","d"," ","d","o","c","u","m","e","n","t"," ","t","h","e","i","r"," ","i","n","t","e","n","t",".">>,
                          filename, elem.line, elem.col)>>
        ELSE IF is_def /\ ~ has_doc
        THEN <<Diagnostic("W010", "info",
                          <<"D","e","f","i","n","i","t","i","o","n"," ","'">> \o elem.name \o <<"'"," ","h","a","s"," ","n","o"," ","d","o","c"," ","b","l","o","c","k",".">>,
                          filename, elem.line, elem.col)>>
        ELSE <<>>

-----------------------------------------------------------------------------
(* rules/structure.py                                                      *)

_SUBSTANTIVE_DEFS ==
  {
    <<"a","c","t","i","o","n","_","d","e","f">>,
    <<"a","n","a","l","y","s","i","s","_","d","e","f">>,
    <<"b","e","h","a","v","i","o","r","_","d","e","f">>, <<"c","a","l","c","_","d","e","f">>,
    <<"c","o","n","n","e","c","t","i","o","n","_","d","e","f">>,
    <<"f","u","n","c","t","i","o","n","_","d","e","f">>,
    <<"i","n","t","e","r","f","a","c","e","_","d","e","f">>,
    <<"p","a","r","t","_","d","e","f">>, <<"p","o","r","t","_","d","e","f">>,
    <<"p","r","e","d","i","c","a","t","e","_","d","e","f">>,
    <<"r","e","q","u","i","r","e","m","e","n","t","_","d","e","f">>,
    <<"s","t","a","t","e","_","d","e","f">>, <<"u","s","e","_","c","a","s","e","_","d","e","f">>
  }

_TYPED_USAGES ==
  {
    <<"a","t","t","r","i","b","u","t","e">>, <<"i","t","e","m">>, <<"p","a","r","t">>,
    <<"p","o","r","t">>
  }

\* A search for the kinds at any depth below elem.
RECURSIVE HasChildDeep(_, _)
HasChildDeep(elem, kinds) ==
    \E i \in 1..Len(elem.body) :
        elem.body[i].kind \in kinds \/ HasChildDeep(elem.body[i], kinds)

HasChild(elem, kinds) == \E i \in 1..Len(elem.body) : elem.body[i].kind \in kinds

\* A body count that passes over imports as well.
RealBodyWithoutImports(elem) ==
    SelectSeq(elem.body, LAMBDA c : c.kind \notin {<<"d","o","c">>, <<"c","o","m","m","e","n","t">>,
                                                    <<"i","m","p","o","r","t">>})

\* [c for c in elem.body if c.kind not in ("doc", "comment")]
real_body(elem) ==
    SelectSeq(elem.body, LAMBDA c : c.kind \notin {<<"d","o","c">>, <<"c","o","m","m","e","n","t">>})

StructureRule_visit(elem, filename) ==
    LET named == Truthy(elem.name)
        is_req == elem.kind = <<"r","e","q","u","i","r","e","m","e","n","t","_","d","e","f">> /\ named
        has_sub_reqs == HasChild(elem, {<<"r","e","q","u","i","r","e","m","e","n","t">>, <<"r","e","q","u","i","r","e","m","e","n","t","_","d","e","f">>})
        w020 == IF elem.kind \in _SUBSTANTIVE_DEFS /\ named /\ real_body(elem) = <<>>
                THEN <<Diagnostic("W020", "info",
                                  <<"D","e","f","i","n","i","t","i","o","n"," ","'">> \o elem.name \o <<"'"," ","h","a","s"," ","a","n"," ","e","m","p","t","y"," ","b","o","d","y",".">>,
                                  filename, elem.line, elem.col)>>
                ELSE <<>>
        w021 == IF is_req /\ ~ HasChild(elem, {<<"s","u","b","j","e","c","t">>}) /\ ~ has_sub_reqs
                THEN <<Diagnostic("W021", "warning",
                                  <<"R","e","q","u","i","r","e","m","e","n","t"," ","d","e","f","i","n","i","t","i","o","n"," ","'">> \o elem.name
                                    \o <<"'"," ","h","a","s"," ","n","o"," ","'","s","u","b","j","e","c","t","'"," ","d","e","c","l","a","r","a","t","i","o","n",".">>,
                                  filename, elem.line, elem.col)>>
                ELSE <<>>
        w022 == IF is_req /\ ~ HasChild(elem, {<<"r","e","q","u","i","r","e","_","c","o","n","s","t","r","a","i","n","t">>}) /\ ~ has_sub_reqs
                THEN <<Diagnostic("W022", "info",
                                  <<"R","e","q","u","i","r","e","m","e","n","t"," ","d","e","f","i","n","i","t","i","o","n"," ","'">> \o elem.name
                                    \o <<"'"," ","h","a","s"," ","n","o"," ","'","r","e","q","u","i","r","e"," ","c","o","n","s","t","r","a","i","n","t","'"," ","b","o","d","y",".">>,
                                  filename, elem.line, elem.col)>>
                ELSE <<>>
        w023 == IF /\ elem.kind \in _TYPED_USAGES
                   /\ named
                   /\ elem.type_ref = None
                   /\ elem.specializes = <<>>
                THEN <<Diagnostic("W023", "info",
                                  <<"U","s","a","g","e"," ","'">> \o elem.name \o <<"'"," ","(">> \o elem.kind
                                    \o <<")"," ","h","a","s"," ","n","o"," ","t","y","p","e"," ","a","n","n","o","t","a","t","i","o","n",".">>,
                                  filename, elem.line, elem.col)>>
                ELSE <<>>
        i001 == IF /\ elem.kind = <<"a","c","t","i","o","n","_","d","e","f">>
                   /\ named
                   /\ elem.body # <<>>
                   /\ HasChild(elem, {<<"a","c","t","i","o","n">>})
                   /\ ~ HasChild(elem, {<<"f","i","r","s","t">>, <<"t","h","e","n">>})
                THEN <<Diagnostic("I001", "info",
                                  <<"A","c","t","i","o","n"," ","d","e","f","i","n","i","t","i","o","n"," ","'">> \o elem.name
                                    \o <<"'"," ","d","e","f","i","n","e","s"," ","s","u","b","-","a","c","t","i","o","n","s"," ","b","u","t"," ","h","a","s"," ","n","o"," ","'","f","i","r","s","t","'","/","'","t","h","e","n","'"," ","s","e","q","u","e","n","c","i","n","g",".">>,
                                  filename, elem.line, elem.col)>>
                ELSE <<>>
    IN  w020 \o w021 \o w022 \o w023 \o i001

-----------------------------------------------------------------------------
(* rules/base.py                                                           *)

\* The visitor of the rule class named `rule`.
Visit(rule, elem, filename) ==
    CASE rule = "NamingRule" -> NamingRule_visit(elem, filename)
      [] rule = "DocumentationRule" -> DocumentationRule_visit(elem, filename)
      [] rule = "StructureRule" -> StructureRule_visit(elem, filename)

\* A walk that visits the elements of the list without entering their bodies.
RECURSIVE WalkWithoutBodies(_, _, _)
WalkWithoutBodies(elements, filename, rule) ==
    IF elements = <<>> THEN <<>>
    ELSE Visit(rule, elements[1], filename) \o WalkWithoutBodies(Tail(elements), filename, rule)

\* BaseRule._walk: the visitor on each element, then on its body.
RECURSIVE _walk(_, _, _)
_walk(elements, filename, rule) ==
    IF elements = <<>> THEN <<>>
    ELSE Visit(rule, elements[1], filename)
         \o _walk(elements[1].body, filename, rule)
         \o _walk(Tail(elements), filename, rule)

-----------------------------------------------------------------------------
(* rules/scope.py                                                          *)

_NAMED_KINDS ==
  {
    <<"a","c","t","i","o","n">>, <<"a","c","t","i","o","n","_","d","e","f">>,
    <<"a","l","l","o","c","a","t","i","o","n","_","d","e","f">>,
    <<"a","n","a","l","y","s","i","s","_","d","e","f">>,
    <<"a","s","s","o","c","_","d","e","f">>, <<"a","t","t","r","i","b","u","t","e">>,
    <<"a","t","t","r","i","b","u","t","e","_","d","e","f">>,
    <<"b","e","h","a","v","i","o","r","_","d","e","f">>, <<"c","a","l","c","_","d","e","f">>,
    <<"c","l","a","s","s","_","d","e","f">>,
    <<"c","l","a","s","s","i","f","i","e","r","_","d","e","f">>,
    <<"c","o","n","n","e","c","t","i","o","n","_","d","e","f">>,
    <<"c","o","n","n","e","c","t","o","r","_","d","e","f">>,
    <<"c","o","n","s","t","r","a","i","n","t">>,
    <<"d","a","t","a","t","y","p","e","_","d","e","f">>, <<"e","n","u","m","_","d","e","f">>,
    <<"f","l","o","w">>, <<"f","u","n","c","t","i","o","n","_","d","e","f">>,
    <<"i","n","t","e","r","f","a","c","e","_","d","e","f">>, <<"i","t","e","m">>,
    <<"i","t","e","m","_","d","e","f">>, <<"m","e","t","a","d","a","t","a","_","d","e","f">>,
    <<"o","c","c","u","r","r","e","n","c","e","_","d","e","f">>, <<"p","a","r","t">>,
    <<"p","a","r","t","_","d","e","f">>, <<"p","o","r","t">>,
    <<"p","o","r","t","_","d","e","f">>,
    <<"p","r","e","d","i","c","a","t","e","_","d","e","f">>,
    <<"r","e","q","u","i","r","e","m","e","n","t">>,
    <<"r","e","q","u","i","r","e","m","e","n","t","_","d","e","f">>,
    <<"s","t","a","t","e","_","d","e","f">>, <<"s","t","r","u","c","t","_","d","e","f">>,
    <<"s","u","b","j","e","c","t">>, <<"t","y","p","e","_","d","e","f">>,
    <<"u","s","e","_","c","a","s","e","_","d","e","f">>, <<"v","i","e","w","_","d","e","f">>,
    <<"v","i","e","w","p","o","i","n","t","_","d","e","f">>
  }

\* The loop of _check_duplicates with `seen[key] = elem` done for every named
\* element, so that seen holds the latest declaration of a name.
RECURSIVE CheckDuplicatesLatest(_, _, _, _)
CheckDuplicatesLatest(elements, filename, i, seen) ==
    IF i > Len(elements) THEN <<>>
    ELSE
    LET elem == elements[i]
        counts == elem.kind \in _NAMED_KINDS /\ Truthy(elem.name)
        key == lower(elem.name)
        dup == counts /\ key \in DOMAIN seen
        here == IF dup
                THEN <<Diagnostic("W030", "warning",
                                  <<"D","u","p","l","i","c","a","t","e"," ","n","a","m","e"," ","'">> \o elem.name
                                    \o <<"'"," ","i","n"," ","t","h","i","s"," ","s","c","o","p","e"," ","(","f","i","r","s","t"," ","d","e","c","l","a","r","e","d"," ","a","t"," ","l","i","n","e"," ">>
                                    \o str(seen[key].line) \o <<")",".">>,
                                  filename, elem.line, elem.col)>>
                ELSE <<>>
        seen1 == IF counts THEN (key :> elem) @@ seen ELSE seen
        inner == IF elem.body # <<>>
                 THEN CheckDuplicatesLatest(elem.body, filename, 1, <<>>)
                 ELSE <<>>
    IN  here \o inner \o CheckDuplicatesLatest(elements, filename, i + 1, seen1)

\* The loop of _check_duplicates with `seen` handed on to the bodies.
RECURSIVE CheckDuplicatesShared(_, _, _, _)
CheckDuplicatesShared(elements, filename, i, seen) ==
    IF i > Len(elements) THEN <<>>
    ELSE
    LET elem == elements[i]
        counts == elem.kind \in _NAMED_KINDS /\ Truthy(elem.name)
        key == lower(elem.name)
        dup == counts /\ key \in DOMAIN seen
        here == IF dup
                THEN <<Diagnostic("W030", "warning",
                                  <<"D","u","p","l","i","c","a","t","e"," ","n","a","m","e"," ","'">> \o elem.name
                                    \o <<"'"," ","i","n"," ","t","h","i","s"," ","s","c","o","p","e"," ","(","f","i","r","s","t"," ","d","e","c","l","a","r","e","d"," ","a","t"," ","l","i","n","e"," ">>
                                    \o str(seen[key].line) \o <<")",".">>,
                                  filename, elem.line, elem.col)>>
                ELSE <<>>
        seen1 == IF counts /\ ~ dup THEN (key :> elem) @@ seen ELSE seen
        inner == IF elem.body # <<>>
                 THEN CheckDuplicatesShared(elem.body, filename, 1, seen1)
                 ELSE <<>>
    IN  here \o inner \o CheckDuplicatesShared(elements, filename, i + 1, seen1)

\* The loop of _check_duplicates over elements[i..], with the dict `seen`
\* (lower-cased name -> first element) built so far.
RECURSIVE CheckDuplicatesLoop(_, _, _, _)
CheckDuplicatesLoop(elements, filename, i, seen) ==
    IF i > Len(elements) THEN <<>>
    ELSE
    LET elem == elements[i]
        counts == elem.kind \in _NAMED_KINDS /\ Truthy(elem.name)
        key == lower(elem.name)
        dup == counts /\ key \in DOMAIN seen
        here == IF dup
                THEN <<Diagnostic("W030", "warning",
                                  <<"D","u","p","l","i","c","a","t","e"," ","n","a","m","e"," ","'">> \o elem.name
                                    \o <<"'"," ","i","n"," ","t","h","i","s"," ","s","c","o","p","e"," ","(","f","i","r","s","t"," ","d","e","c","l","a","r","e","d"," ","a","t"," ","l","i","n","e"," ">>
                                    \o str(seen[key].line) \o <<")",".">>,
                                  filename, elem.line, elem.col)>>
                ELSE <<>>
        seen1 == IF counts /\ ~ dup THEN (key :> elem) @@ seen ELSE seen
        inner == IF elem.body # <<>>
                 THEN CheckDuplicatesLoop(elem.body, filename, 1, <<>>)
                 ELSE <<>>
    IN  here \o inner \o CheckDuplicatesLoop(elements, filename, i + 1, seen1)

_check_duplicates(elements, filename) == CheckDuplicatesLoop(elements, filename, 1, <<>>)

RECURSIVE _collect_imports(_)
_collect_imports(elements) ==
    IF elements = <<>> THEN <<>>
    ELSE (IF elements[1].kind = <<"i","m","p","o","r","t">> THEN <<elements[1]>> ELSE <<>>)
         \o _collect_imports(elements[1].body)
         \o _collect_imports(Tail(elements))

\* The set of the parts of the strings in list.
Segments(list) == UNION {{split(list[i], <<":",":">>)[j] : j \in 1..Len(split(list[i], <<":",":">>))}
                           : i \in 1..Len(list)}

\* _collect_references that does not enter the bodies.
RECURSIVE CollectReferencesFlat(_)
CollectReferencesFlat(elements) ==
    IF elements = <<>> THEN {}
    ELSE LET elem == elements[1]
         IN  (IF Truthy(elem.type_ref) THEN Segments(<<elem.type_ref>>) ELSE {})
             \cup Segments(elem.specializes)
             \cup CollectReferencesFlat(Tail(elements))

RECURSIVE _collect_references(_)
_collect_references(elements) ==
    IF elements = <<>> THEN {}
    ELSE LET elem == elements[1]
         IN  (IF Truthy(elem.type_ref) THEN Segments(<<elem.type_ref>>) ELSE {})
             \cup Segments(elem.specializes)
             \cup _collect_references(elem.body)
             \cup _collect_references(Tail(elements))

\* The loop body with a wildcard import matched by its last segment only.
UnusedImportLeafOnly(imp, used_names, filename) ==
    LET parts == split(imp.import_path, <<":",":">>)
        root == parts[1]
        leaf == parts[Len(parts)]
        referenced ==
            IF imp.import_star
            THEN \E name \in used_names : startswith(name, leaf)
            ELSE leaf \in used_names \/ imp.import_path \in used_names
        label == imp.import_path \o (IF imp.import_star THEN <<":",":","*">> ELSE <<>>)
    IN  IF ~ Truthy(imp.import_path) \/ referenced THEN <<>>
        ELSE <<Diagnostic("W031", "info",
                          <<"I","m","p","o","r","t"," ","'">> \o label \o <<"'"," ","a","p","p","e","a","r","s"," ","t","o"," ","b","e"," ","u","n","u","s","e","d",".">>,
                          filename, imp.line, imp.col)>>

\* The body of the `for imp in imports` loop of _check_unused_imports.
UnusedImport(imp, used_names, filename) ==
    LET parts == split(imp.import_path, <<":",":">>)
        root == parts[1]
        leaf == parts[Len(parts)]
        referenced ==
            IF imp.import_star
            THEN \E name \in used_names : startswith(name, leaf) \/ startswith(name, root)
            ELSE leaf \in used_names \/ imp.import_path \in used_names
        label == imp.import_path \o (IF imp.import_star THEN <<":",":","*">> ELSE <<>>)
    IN  IF ~ Truthy(imp.import_path) \/ referenced THEN <<>>
        ELSE <<Diagnostic("W031", "info",
                          <<"I","m","p","o","r","t"," ","'">> \o label \o <<"'"," ","a","p","p","e","a","r","s"," ","t","o"," ","b","e"," ","u","n","u","s","e","d",".">>,
                          filename, imp.line, imp.col)>>

RECURSIVE UnusedImports(_, _, _)
UnusedImports(imports, used_names, filename) ==
    IF imports = <<>> THEN <<>>
    ELSE UnusedImport(imports[1], used_names, filename)
         \o UnusedImports(Tail(imports), used_names, filename)

_check_unused_imports(f) ==
    LET imports == _collect_imports(f.elements)
    IN  IF imports = <<>> THEN <<>>
        ELSE UnusedImports(imports, _collect_references(f.elements), f.filename)

ScopeRule_check(f) ==
    _check_duplicates(f.elements, f.filename) \o _check_unused_imports(f)

-----------------------------------------------------------------------------
(* rules/__init__.py and checker.py                                        *)

ALL_RULES == <<"NamingRule", "DocumentationRule", "StructureRule", "ScopeRule">>

\* rule_cls().check(file)
RuleCheck(rule, f) ==
    IF rule = "ScopeRule" THEN ScopeRule_check(f)
    ELSE _walk(f.elements, f.filename, rule)

\* A rule that stores `elem.doc or ""` in the doc of the top-level elements.
RuleFillsDoc(rule, f) ==
    [f EXCEPT !.elements =
        [i \in DOMAIN @ |-> [@[i] EXCEPT !.doc = IF @ = None THEN <<>> ELSE @]]]

\* The tree as rule.check(file) leaves it: _walk and the visitors of the four
\* rules read the File and its Elements, append to lists and sets of their
\* own, and assign to no field of the tree.
RuleLeaves(rule, f) == f

\* The tree after the loop of check_file has run every rule on it.
RECURSIVE FileAfterRules(_, _)
FileAfterRules(rules, f) ==
    IF rules = <<>> THEN f
    ELSE FileAfterRules(Tail(rules), RuleLeaves(rules[1], f))

\* The loop of check_file filtering `if rule_ids:` (an empty set filters nothing).
RECURSIVE RunRulesIfTruthy(_, _, _)
RunRulesIfTruthy(rules, f, ids) ==
    IF rules = <<>> THEN <<>>
    ELSE LET rule_diags == RuleCheck(rules[1], f)
         IN  (IF ids # NoneSet /\ ids # {}
              THEN SelectSeq(rule_diags, LAMBDA d : d.rule_id \in ids)
              ELSE rule_diags)
             \o RunRulesIfTruthy(Tail(rules), f, ids)

\* The loop of check_file over the rule classes, in the order given.
RECURSIVE RunRules(_, _, _)
RunRules(rules, f, ids) ==
    IF rules = <<>> THEN <<>>
    ELSE LET rule_diags == RuleCheck(rules[1], f)
         IN  (IF ids # NoneSet THEN SelectSeq(rule_diags, LAMBDA d : d.rule_id \in ids)
              ELSE rule_diags)
             \o RunRules(Tail(rules), f, ids)

check_file(f, ids) == sorted(RunRules(ALL_RULES, f, ids))

-----------------------------------------------------------------------------
(* Bounded inputs.                                                         *)

\* Longest source text enumerated character by character.
MaxSourceLen == 3

\* Loop passes allowed beyond the number of tokens.  A pass of _parse_body
\* that advances consumes a token, a pass that opens a body consumes two, and
\* a pass that breaks pops a call, so a parse that returns takes at most as
\* many passes as there are tokens.
MaxExtraIterations == 2

\* Longest token list (not counting EOF) enumerated token by token.
MaxTokens == 4

\* Most declaration lines in an enumerated model text.
MaxLines == 3

\* The characters of the enumerated source texts.
SourceChars == {"a", "1", ".", "e", "/", "*", "'", "\\", "\n", " ", ":", ">", "=", "}"}

\* The sequences over `chars` of length at most n.
RECURSIVE Strings(_, _)
Strings(chars, n) ==
    IF n = 0 THEN {<<>>}
    ELSE LET shorter == Strings(chars, n - 1)
         IN  shorter \cup {Append(s, ch) : s \in shorter, ch \in chars}

EngineSample == <<"p","a","r","t"," ","d","e","f"," ","E","n","g","i","n","e"," ","{"," ","p","a","r","t"," ","d","e","f"," ","T","u","r","b","i","n","e",";"," ","}">>

SampleSources == {EngineSample}

Sources == Strings(SourceChars, MaxSourceLen) \cup SampleSources

\* The tokens of the enumerated token lists, as the lexer spells them.
TokenAlphabet ==
    { [type |-> "PART", value |-> <<"p","a","r","t">>], [type |-> "DEF", value |-> <<"d","e","f">>],
      [type |-> "IDENTIFIER", value |-> <<"A">>], [type |-> "LBRACE", value |-> <<"{">>],
      [type |-> "RBRACE", value |-> <<"}">>], [type |-> "SEMI", value |-> <<";">>],
      [type |-> "EQ", value |-> <<"=">>], [type |-> "COLON", value |-> <<":">>] }

\* The token list of items[i..] written on one line from column cl, one blank
\* between tokens, closed by EOF.
RECURSIVE LayOut(_, _, _)
LayOut(items, i, cl) ==
    IF i > Len(items) THEN <<Token("EOF", <<>>, 1, cl)>>
    ELSE <<Token(items[i].type, items[i].value, 1, cl)>>
         \o LayOut(items, i + 1, cl + Len(items[i].value) + 1)

TokenLists == {LayOut(items, 1, 1) : items \in Strings(TokenAlphabet, MaxTokens)}

\* Declaration lines of the enumerated model texts: imports (plain, wildcard,
\* bare star), typed and specialising usages at the top and inside a body,
\* and names that differ in case only, as siblings and across scopes.
DeclLines ==
    { <<"i","m","p","o","r","t"," ","A",":",":","B",":",":","C",";">>,
      <<"i","m","p","o","r","t"," ","A",":",":","Z","e","d",":",":","*",";">>,
      <<"i","m","p","o","r","t"," ","Z",":",":","C","a",":",":","*",";">>,
      <<"i","m","p","o","r","t"," ","*",";">>,
      <<"p","a","r","t"," ","x"," ",":"," ","Q",":",":","C","a","b",";">>,
      <<"p","a","r","t"," ","d","e","f"," ","F","o","o"," ","{"," ","p","a","r","t"," ","f","o","o"," ",":",">"," ","A",":",":","C",";"," ","}">>,
      <<"p","a","r","t"," ","f","o","o",";">>,
      <<"p","a","c","k","a","g","e"," ","f","o","o"," ","{"," ","p","a","r","t"," ","x",";"," ","p","a","r","t"," ","X",";"," ","}">> }

\* The texts of at most n declaration lines, each closed by a newline.
RECURSIVE Texts(_)
Texts(n) ==
    IF n = 0 THEN {<<>>}
    ELSE LET shorter == Texts(n - 1)
         IN  shorter \cup {t \o l \o <<"\n">> : t \in shorter, l \in DeclLines}

RuleSources == Texts(MaxLines)

RuleIdChoices == {NoneSet, {}, {"W030"}, {"W010", "W031"}, {"W001", "W020", "W030"}}

-----------------------------------------------------------------------------
(* syslint._lint_file as a state machine.                                  *)
(* phase: "lex" (inside Lexer.tokenize), "lexed", "parse" (inside          *)
(* Parser.parse), "parsed", "done" (check_file has returned).              *)

\* A frame is one active call of _parse_body: its top_level flag, its
\* `elements` list, and the element whose body it reads (None at top level).
Frame(top_level, elem) == [top_level |-> top_level, elements |-> <<>>, elem |-> elem]

Top == stack[Len(stack)]

\* What the next pass through the loop of the innermost _parse_body does.
Pass == BodyPass(p_tokens, p_pos, Top.top_level)

\* elements.append(elem) in the innermost frame below the one popped.
AppendTo(frames, elem) ==
    IF elem = NoneObject THEN frames
    ELSE [frames EXCEPT ![Len(frames)].elements = Append(@, elem)]

\* One pass of the `while True` loop of Lexer.tokenize.
LexerTokenize ==
    /\ phase = "lex"
    /\ LET Appended(r) ==
               /\ tokens' = Append(tokens, r.tok)
               /\ pos' = r.cur.pos
               /\ line' = r.cur.line
               /\ col' = r.cur.col
               /\ phase' = IF r.tok.type = "EOF" THEN "lexed" ELSE "lex"
       IN  Appended(_next_token(source, [pos |-> pos, line |-> line, col |-> col]))
    /\ UNCHANGED <<source, path, p_tokens, p_pos, stack, iterations, file, rule_ids, diags>>
    /\ UNCHANGED main_vars

\* Parser(tokens, filename=path) and the call of _parse_body(top_level=True).
ParserInit ==
    /\ phase = "lexed"
    /\ p_tokens' = Parser_tokens(tokens)
    /\ p_pos' = 0
    /\ stack' = <<Frame(TRUE, NoneObject)>>
    /\ phase' = "parse"
    /\ UNCHANGED <<source, path, pos, line, col, tokens, iterations, file, rule_ids, diags>>
    /\ UNCHANGED main_vars

\* A loop pass in which _parse_element returns without opening a body.
ParseBodyElement ==
    /\ phase = "parse"
    /\ iterations < Len(p_tokens) + MaxExtraIterations
    /\ LET Appended(r) ==
               /\ ~ r.break /\ ~ r.open
               /\ p_pos' = r.pos
               /\ stack' = AppendTo(stack, r.elem)
       IN  Appended(Pass)
    /\ iterations' = iterations + 1
    /\ UNCHANGED <<source, path, pos, line, col, tokens, p_tokens, file, rule_ids, diags,
                   phase>>
    /\ UNCHANGED main_vars

\* A loop pass in which _parse_element_tail consumes `{` and calls _parse_body.
ParseBodyDescend ==
    /\ phase = "parse"
    /\ iterations < Len(p_tokens) + MaxExtraIterations
    /\ LET Opened(r) ==
               /\ ~ r.break /\ r.open
               /\ p_pos' = r.pos
               /\ stack' = Append(stack, Frame(FALSE, r.elem))
       IN  Opened(Pass)
    /\ iterations' = iterations + 1
    /\ UNCHANGED <<source, path, pos, line, col, tokens, p_tokens, file, rule_ids, diags,
                   phase>>
    /\ UNCHANGED main_vars

\* The loop of a nested _parse_body breaks: _parse_element_tail takes the
\* children, and the element is appended in the enclosing body.
ParseBodyReturn ==
    /\ phase = "parse"
    /\ iterations < Len(p_tokens) + MaxExtraIterations
    /\ Len(stack) > 1
    /\ LET Closing(r) ==
               /\ p_pos' = r.pos
               /\ stack' = AppendTo(SubSeq(stack, 1, Len(stack) - 1), r.elem)
           Broken(b) ==
               /\ b.break
               /\ Closing(TailAfterBody(p_tokens, Top.elem, Top.elements, b.pos))
       IN  Broken(Pass)
    /\ iterations' = iterations + 1
    /\ UNCHANGED <<source, path, pos, line, col, tokens, p_tokens, file, rule_ids, diags,
                   phase>>
    /\ UNCHANGED main_vars

\* The loop of the top-level _parse_body breaks: Parser.parse returns the File.
ParseReturn ==
    /\ phase = "parse"
    /\ iterations < Len(p_tokens) + MaxExtraIterations
    /\ Len(stack) = 1
    /\ LET Broken(b) == b.break /\ p_pos' = b.pos
       IN  Broken(Pass)
    /\ file' = File(path, Top.elements)
    /\ stack' = <<>>
    /\ iterations' = iterations + 1
    /\ phase' = "parsed"
    /\ UNCHANGED <<source, path, pos, line, col, tokens, p_tokens, rule_ids, diags>>
    /\ UNCHANGED main_vars

\* check_file(ast, rule_ids=rule_ids)
CheckFile ==
    /\ phase = "parsed"
    /\ \E ids \in (IF args = NoneObject THEN RuleIdChoices ELSE {rule_ids}) :
          /\ rule_ids' = ids
          /\ diags' = check_file(file, ids)
    /\ phase' = "done"
    /\ file' = FileAfterRules(ALL_RULES, file)
    /\ UNCHANGED <<source, path, pos, line, col, tokens, p_tokens, p_pos, stack, iterations>>
    /\ UNCHANGED main_vars

\* main is not running: _lint_file or Parser is called on its own.
MainIdle ==
    /\ args = NoneObject
    /\ file_index = 0
    /\ all_diags = <<>>
    /\ exit_code = NoneChar
    /\ history = <<>>

\* The state in which _lint_file(path, rule_ids) starts to tokenize text.
LintFileInit(text) ==
    /\ source = text
    /\ path = <<"m","o","d","e","l",".","s","y","s","m","l">>
    /\ pos = 0 /\ line = 1 /\ col = 1
    /\ tokens = <<>>
    /\ p_tokens = <<>> /\ p_pos = 0 /\ stack = <<>> /\ iterations = 0
    /\ file = NoneObject
    /\ rule_ids = NoneSet
    /\ diags = <<>>
    /\ phase = "lex"
    /\ MainIdle

\* The state in which a caller holding the token list toks constructs a Parser.
ParserStart(toks) ==
    /\ source = <<>>
    /\ path = <<"m","o","d","e","l",".","s","y","s","m","l">>
    /\ pos = 0 /\ line = 1 /\ col = 1
    /\ tokens = toks
    /\ p_tokens = <<>> /\ p_pos = 0 /\ stack = <<>> /\ iterations = 0
    /\ file = NoneObject
    /\ rule_ids = NoneSet
    /\ diags = <<>>
    /\ phase = "lexed"
    /\ MainIdle

\* The whole pipeline on short texts and the sample text.
Init == \E text \in Sources : LintFileInit(text)

Next == LexerTokenize \/ ParserInit \/ ParseBodyElement \/ ParseBodyDescend
          \/ ParseBodyReturn \/ ParseReturn \/ CheckFile

Spec == Init /\ [][Next]_vars

\* Parser.parse on every short token list.
InitParse == \E toks \in TokenLists : ParserStart(toks)

NextParse == ParserInit \/ ParseBodyElement \/ ParseBodyDescend \/ ParseBodyReturn
               \/ ParseReturn

SpecParse == InitParse /\ [][NextParse]_vars

\* The whole pipeline on the texts made of declaration lines.
InitRules == \E text \in RuleSources : LintFileInit(text)

SpecRules == InitRules /\ [][Next]_vars

-----------------------------------------------------------------------------
(* Vocabulary of the properties.                                           *)

Range(s) == {s[i] : i \in 1..Len(s)}

Last(s) == s[Len(s)]

Min(S) == CHOOSE x \in S : \A y \in S : x <= y

\* Every element of a tree, at any depth.
RECURSIVE AllElements(_)
AllElements(elements) ==
    IF elements = <<>> THEN {}
    ELSE {elements[1]} \cup AllElements(elements[1].body) \cup AllElements(Tail(elements))

\* The scopes of a file: its top-level list and the body of every element.
Scopes(f) == {f.elements} \cup {e.body : e \in AllElements(f.elements)}

\* The sort key of a diagnostic.
Key(d) == <<d.filename, d.line, d.col>>

KeyLe(a, b) ==
    IF a.filename # b.filename THEN StrLt(a.filename, b.filename)
    ELSE IF a.line # b.line THEN a.line < b.line
    ELSE a.col <= b.col

\* The diagnostics of list that carry rule_id and sit at the position of e.
At(list, rule_id, e) ==
    SelectSeq(list, LAMBDA d : d.rule_id = rule_id /\ d.line = e.line /\ d.col = e.col)

\* How often x occurs in list.
Count(list, x) == Cardinality({i \in 1..Len(list) : list[i] = x})

Reports(rule_id) == rule_ids = NoneSet \/ rule_id \in rule_ids

\* The permutations of ALL_RULES.
RuleOrders ==
    {o \in [1..Len(ALL_RULES) -> Range(ALL_RULES)] : Range(o) = Range(ALL_RULES)}

\* s occurs in text.
Contains(text, s) ==
    \E i \in 0..(Len(text) - Len(s)) : SubSeq(text, i + 1, i + Len(s)) = s

-----------------------------------------------------------------------------
(* C1  Parser.parse terminates                                             *)

\* C1: every pass through the loop of _parse_body either ends the loop (the
\* call of _parse_body returns) or moves the cursor strictly forward, so that
\* Parser.parse returns a File for every token list ending in EOF.
C1_EveryPassStopsOrAdvances ==
    [][(phase = "parse" /\ iterations' # iterations)
         => (p_pos' > p_pos \/ Len(stack') < Len(stack))]_vars

-----------------------------------------------------------------------------
(* C2  Lexer.tokenize terminates with EOF last                             *)

C2_TokensEndInOneEOF ==
    /\ pos <= Len(source)
    /\ \A i \in 1..Len(tokens) :
          tokens[i].type = "EOF" => (i = Len(tokens) /\ phase # "lex")
    /\ phase # "lex" => (tokens # <<>> /\ Last(tokens).type = "EOF")

C2_NextTokenConsumes ==
    (phase = "lex" /\ tokens' # tokens /\ Last(tokens').type # "EOF") => pos' > pos

\* C2: the token list of every text ends in EOF and holds no other EOF, the
\* cursor never passes the end of the text, and every call of _next_token that
\* does not return EOF moves the cursor forward by at least one character (so
\* tokenize returns after at most len(text) + 1 calls).
C2_TokenizeTerminates == [](C2_TokensEndInOneEOF) /\ [][C2_NextTokenConsumes]_vars

C2_Witness ==
    /\ phase = "lexed"
    /\ Len(source) = MaxSourceLen
    /\ Len(tokens) = MaxSourceLen + 1

-----------------------------------------------------------------------------
(* C3  check_file sorts by (filename, line, col), stably                   *)

\* The diagnostics in the order the rules produced them, before sorted().
Produced == RunRules(ALL_RULES, file, rule_ids)

\* C3: the list check_file returns is non-decreasing by (filename, line, col),
\* and the diagnostics of one (filename, line, col) stand in the order in which
\* the rules produced them.
C3_SortedStable ==
    phase = "done" =>
        /\ Len(diags) = Len(Produced)
        /\ \A i \in 1..(Len(diags) - 1) : KeyLe(diags[i], diags[i + 1])
        /\ \A k \in {Key(d) : d \in Range(Produced)} :
              SelectSeq(diags, LAMBDA d : Key(d) = k)
                = SelectSeq(Produced, LAMBDA d : Key(d) = k)

\* The rules produced diagnostics out of position order, and one position has
\* a warning produced after an info.
C3_Witness ==
    /\ phase = "done"
    /\ \E i, j \in 1..Len(Produced) : i < j /\ ~ KeyLe(Produced[i], Produced[j])
    /\ \E i, j \in 1..Len(diags) :
          /\ i < j /\ Key(diags[i]) = Key(diags[j])
          /\ diags[i].severity = "info" /\ diags[j].severity = "warning"

-----------------------------------------------------------------------------
(* C4  the allowlist filters the unfiltered result                         *)

\* C4: for a rule-id set S (the empty set included), check_file(file, S) is
\* check_file(file, None) restricted to the diagnostics whose rule_id is in S,
\* in the same order.
C4_AllowlistFilters ==
    (phase = "done" /\ rule_ids # NoneSet) =>
        diags = SelectSeq(check_file(file, NoneSet), LAMBDA d : d.rule_id \in rule_ids)

\* The empty allowlist on a file that has diagnostics.
C4_Witness ==
    /\ phase = "done"
    /\ rule_ids = {}
    /\ diags = <<>>
    /\ check_file(file, NoneSet) # <<>>

-----------------------------------------------------------------------------
(* C5  the order of ALL_RULES                                              *)

\* check_file with the rules run in the order o.
CheckFileIn(o) == sorted(RunRules(o, file, rule_ids))

\* C5 as stated: check_file returns the same sequence for every permutation of
\* ALL_RULES.
C5_SameSequenceForEveryOrder ==
    phase = "done" => \A o \in RuleOrders : CheckFileIn(o) = diags

\* C5, amended: for every permutation of ALL_RULES check_file returns the same
\* diagnostics with the same multiplicities and the same sequence of
\* (filename, line, col); only diagnostics of one position may change places.
C5_SameUpToTies ==
    phase = "done" =>
        \A o \in RuleOrders :
            LET out == CheckFileIn(o)
            IN  /\ Len(out) = Len(diags)
                /\ \A i \in 1..Len(diags) : Key(out[i]) = Key(diags[i])
                /\ \A d \in Range(diags) : Count(out, d) = Count(diags, d)

\* Two rules report at one position, so that another order changes the list.
C5_Witness ==
    /\ phase = "done"
    /\ \E o \in RuleOrders : CheckFileIn(o) # diags

-----------------------------------------------------------------------------
(* C6  part def Engine { part def Turbine; }                               *)

C6_Tokens ==
    /\ [i \in 1..Len(tokens) |-> tokens[i].type]
         = <<"PART", "DEF", "IDENTIFIER", "LBRACE", "PART", "DEF", "IDENTIFIER", "SEMI",
             "RBRACE", "EOF">>
    /\ tokens[3].value = <<"E","n","g","i","n","e">>
    /\ tokens[7].value = <<"T","u","r","b","i","n","e">>

C6_Tree ==
    /\ Len(file.elements) = 1
    /\ LET engine == file.elements[1]
       IN  /\ engine.kind = <<"p","a","r","t","_","d","e","f">> /\ engine.is_def /\ engine.name = <<"E","n","g","i","n","e">>
           /\ Len(engine.body) = 1
           /\ LET turbine == engine.body[1]
              IN  /\ turbine.kind = <<"p","a","r","t","_","d","e","f">> /\ turbine.is_def
                  /\ turbine.name = <<"T","u","r","b","i","n","e">>
                  /\ turbine.body = <<>>

C6_Diagnostics ==
    /\ [i \in 1..Len(diags) |-> <<diags[i].rule_id, diags[i].severity>>]
         = << <<"W010", "info">>, <<"W010", "info">>, <<"W020", "info">> >>
    /\ At(diags, "W010", file.elements[1]) = <<diags[1]>>
    /\ Contains(diags[1].message, <<"E","n","g","i","n","e">>)
    /\ At(diags, "W010", file.elements[1].body[1]) = <<diags[2]>>
    /\ Contains(diags[2].message, <<"T","u","r","b","i","n","e">>)
    /\ At(diags, "W020", file.elements[1].body[1]) = <<diags[3]>>
    /\ Contains(diags[3].message, <<"T","u","r","b","i","n","e">>)

\* C6: on `part def Engine { part def Turbine; }` tokenize gives PART DEF
\* IDENTIFIER(Engine) LBRACE PART DEF IDENTIFIER(Turbine) SEMI RBRACE EOF, parse
\* gives one part_def Engine holding one part_def Turbine with an empty body,
\* and check_file gives exactly three diagnostics, all info: W010 for Engine,
\* W010 for Turbine and W020 for Turbine.
C6_EngineTurbine ==
    source = EngineSample =>
        /\ phase # "lex" => C6_Tokens
        /\ phase \in {"parsed", "done"} => C6_Tree
        /\ (phase = "done" /\ rule_ids = NoneSet) => C6_Diagnostics

C6_Witness == source = EngineSample /\ phase = "done" /\ rule_ids = NoneSet /\ Len(diags) = 3

-----------------------------------------------------------------------------
(* C7, C8  duplicate names                                                 *)

\* e declares a name in its scope.
Named(e) == e.kind \in _NAMED_KINDS /\ e.name # None /\ e.name # <<>>

\* The earlier siblings of scope[j] that declare the same name, case ignored.
EarlierSame(scope, j) ==
    {i \in 1..(j - 1) : Named(scope[i]) /\ lower(scope[i].name) = lower(scope[j].name)}

IsDuplicate(scope, j) == Named(scope[j]) /\ EarlierSame(scope, j) # {}

DuplicateMessage(e, first) ==
    <<"D","u","p","l","i","c","a","t","e"," ","n","a","m","e"," ","'">> \o e.name \o <<"'"," ","i","n"," ","t","h","i","s"," ","s","c","o","p","e"," ","(","f","i","r","s","t"," ","d","e","c","l","a","r","e","d"," ","a","t"," ","l","i","n","e"," ">>
      \o str(first.line) \o <<")",".">>

\* C7: in every scope, each element that declares the name of an earlier
\* sibling (case ignored) gets exactly one W030 warning at its own position,
\* citing the line of the first sibling of that name; every other element
\* gets none.
C7_DuplicateCitesFirst ==
    (phase = "done" /\ Reports("W030")) =>
        \A scope \in Scopes(file) : \A j \in 1..Len(scope) :
            At(diags, "W030", scope[j])
              = IF IsDuplicate(scope, j)
                THEN <<Diagnostic("W030", "warning",
                                  DuplicateMessage(scope[j], scope[Min(EarlierSame(scope, j))]),
                                  file.filename, scope[j].line, scope[j].col)>>
                ELSE <<>>

\* Three siblings of one name on three lines: the third is reported too.
C7_Witness ==
    /\ phase = "done" /\ rule_ids = NoneSet
    /\ \E scope \in Scopes(file) : \E i, j, k \in 1..Len(scope) :
          /\ i < j /\ j < k
          /\ i \in EarlierSame(scope, j) /\ {i, j} \subseteq EarlierSame(scope, k)
          /\ Named(scope[k])
          /\ scope[i].line < scope[j].line /\ scope[j].line < scope[k].line
          /\ At(diags, "W030", scope[k]) # <<>>

\* C8: a W030 is reported only at an element that has an earlier sibling of
\* the same name in its own scope; names in other scopes (an ancestor's, a
\* descendant's, a sibling's body) never cause one.
C8_OnlySiblingsInteract ==
    phase = "done" =>
        \A n \in 1..Len(diags) :
            diags[n].rule_id = "W030" =>
                \E scope \in Scopes(file) : \E j \in 1..Len(scope) :
                    /\ scope[j].line = diags[n].line /\ scope[j].col = diags[n].col
                    /\ IsDuplicate(scope, j)

SameName(a, b) == Named(a) /\ Named(b) /\ lower(a.name) = lower(b.name)

\* An element holds a child of its own name, two different elements hold
\* children of one name, and none of these children is reported.
C8_Witness ==
    /\ phase = "done" /\ rule_ids = NoneSet
    /\ \E a, b \in Range(file.elements) :
          /\ a # b
          /\ \E c \in Range(a.body), d \in Range(b.body) :
                /\ SameName(a, c) /\ SameName(c, d)
                /\ At(diags, "W030", c) = <<>> /\ At(diags, "W030", d) = <<>>

-----------------------------------------------------------------------------
(* C9, C10  unused imports                                                 *)

IsImport(e) == e.kind = <<"i","m","p","o","r","t">>

\* The `::`-separated segments of a type_ref or specializes value.
SegmentsOf(s) == IF s = None \/ s = <<>> THEN {} ELSE Range(split(s, <<":",":">>))

\* The segments of the type_ref and specializes values of every element.
Refs(f) ==
    UNION {SegmentsOf(e.type_ref) \cup UNION {SegmentsOf(s) : s \in Range(e.specializes)}
             : e \in AllElements(f.elements)}

Leaf(imp) == Last(split(imp.import_path, <<":",":">>))

Root(imp) == Head(split(imp.import_path, <<":",":">>))

ImportABC == <<"i","m","p","o","r","t"," ","A",":",":","B",":",":","C",";","\n">>

\* C9: an import without a star and with a path gets exactly one W031 info
\* diagnostic if neither its last segment nor its whole path is among the
\* segments referenced anywhere in the tree, and none otherwise; the file
\* holding only `import A::B::C;` gets exactly one W031.
C9_PlainImportUnused ==
    (phase = "done" /\ Reports("W031")) =>
        /\ \A imp \in AllElements(file.elements) :
              (IsImport(imp) /\ ~ imp.import_star /\ imp.import_path # <<>>) =>
                  LET got == At(diags, "W031", imp)
                  IN  IF Leaf(imp) \notin Refs(file) /\ imp.import_path \notin Refs(file)
                      THEN Len(got) = 1 /\ got[1].severity = "info"
                      ELSE got = <<>>
        /\ source = ImportABC =>
              Len(SelectSeq(diags, LAMBDA d : d.rule_id = "W031")) = 1

\* `import A::B::C;` is kept quiet by the segment C of a specializes value
\* inside a body, no type_ref at the top level naming C.
C9_Witness ==
    /\ phase = "done" /\ rule_ids = NoneSet
    /\ \E imp \in Range(file.elements) :
          /\ IsImport(imp) /\ ~ imp.import_star /\ imp.import_path = <<"A",":",":","B",":",":","C">>
          /\ At(diags, "W031", imp) = <<>>
          /\ \E e \in Range(file.elements) : \E c \in Range(e.body) :
                <<"C">> \in UNION {SegmentsOf(s) : s \in Range(c.specializes)}
          /\ \A e \in Range(file.elements) : <<"C">> \notin SegmentsOf(e.type_ref)

\* The names written after the IMPORT token: Name (:: Name)*, and the index of
\* the token after them.
RECURSIVE WrittenPath(_, _, _)
WrittenPath(toks, i, names) ==
    IF toks[i].type = "COLON_COLON" /\ toks[i + 1].type = "IDENTIFIER"
    THEN WrittenPath(toks, i + 2, Append(names, toks[i + 1].value))
    ELSE [names |-> names, next |-> i]

WrittenImport(toks, k) ==
    LET s == IF toks[k + 1].type = "ALL" THEN k + 2 ELSE k + 1
    IN  IF toks[s].type = "IDENTIFIER" THEN WrittenPath(toks, s + 1, <<toks[s].value>>)
        ELSE [names |-> <<>>, next |-> s]

\* The import written at token k ends in `::*` or in a star token.
WrittenWildcard(toks, k) ==
    LET n == WrittenImport(toks, k).next
    IN  \/ toks[n].type = "STAR"
        \/ toks[n].type = "COLON_COLON" /\ toks[n + 1].type = "STAR"

\* The IMPORT tokens at the position of the element imp.
ImportTokens(toks, imp) ==
    {k \in 1..Len(toks) : /\ toks[k].type = "IMPORT"
                          /\ toks[k].line = imp.line /\ toks[k].col = imp.col}

\* An import written with a star is parsed with import_star true and with the
\* written names, without the star, as its import_path.
C10_WildcardParsed ==
    \A imp \in AllElements(file.elements) : \A k \in ImportTokens(p_tokens, imp) :
        (IsImport(imp) /\ WrittenWildcard(p_tokens, k)) =>
            /\ imp.import_star
            /\ imp.import_path = join(<<":",":">>, WrittenImport(p_tokens, k).names)
            /\ "*" \notin Range(imp.import_path)

\* Some referenced segment starts with the last or the first segment of imp.
PrefixReferenced(imp) ==
    \E name \in Refs(file) : startswith(name, Leaf(imp)) \/ startswith(name, Root(imp))

WildcardReported(imp) ==
    Len(At(diags, "W031", imp)) = IF PrefixReferenced(imp) THEN 0 ELSE 1

\* C10 as stated: every wildcard import is parsed with import_star true and
\* the star removed, and gets a W031 iff no referenced segment has its last or
\* its first path segment as a prefix.
C10_EveryWildcard ==
    /\ phase \in {"parsed", "done"} => C10_WildcardParsed
    /\ (phase = "done" /\ Reports("W031")) =>
          \A imp \in AllElements(file.elements) :
              (IsImport(imp) /\ imp.import_star) => WildcardReported(imp)

\* C10, amended: the same for the wildcard imports with a non-empty path; a
\* wildcard import without a path (`import *;`) is never reported.
C10_WildcardWithPath ==
    /\ phase \in {"parsed", "done"} => C10_WildcardParsed
    /\ (phase = "done" /\ Reports("W031")) =>
          \A imp \in AllElements(file.elements) :
              (IsImport(imp) /\ imp.import_star) =>
                  IF imp.import_path # <<>> THEN WildcardReported(imp)
                  ELSE At(diags, "W031", imp) = <<>>

\* One wildcard import is reported, and another is kept quiet by its root
\* segment alone.
C10_Witness ==
    /\ phase = "done" /\ rule_ids = NoneSet
    /\ \E a, b \in Range(file.elements) :
          /\ IsImport(a) /\ a.import_star /\ a.import_path # <<>>
          /\ ImportTokens(p_tokens, a) # {}
          /\ At(diags, "W031", a) # <<>>
          /\ IsImport(b) /\ b.import_star /\ b.import_path # <<>>
          /\ At(diags, "W031", b) = <<>>
          /\ \A name \in Refs(file) : ~ startswith(name, Leaf(b))

-----------------------------------------------------------------------------
(* Sample declarations: names, doc blocks and skipped statements.          *)

\* Keywords that open a definition, a usage and a package.
NameKeywords == { <<"p","a","r","t"," ","d","e","f">>, <<"p","a","r","t">>, <<"p","a","c","k","a","g","e">> }

\* Names as they are written in a source text: identifiers, and single-quoted
\* names holding a blank or ending in a newline.
NameSpellings ==
    { <<"E","n","g","i","n","e">>, <<"e","n","g","i","n","e">>, <<"e","n","g","i","n","e","_","s","p","e","e","d">>, <<"E","_","1">>,
      <<"'","w","e","i","r","d"," ","n","a","m","e","'">>, <<"'","W","e","i","r","d"," ","N","a","m","e","'">>, <<"'","E","n","g","i","n","e","\n","'">>, <<"'","e","n","g","i","n","e","\n","'">> }

\* `keyword name;` for every keyword and spelling, and one usage in a body.
NameTexts ==
    {kw \o <<" ">> \o n \o <<";">> : kw \in NameKeywords, n \in NameSpellings}
      \cup { <<"p","a","r","t"," ","d","e","f"," ","E","n","g","i","n","e"," ","{"," ","p","a","r","t"," ","E","n","g","i","n","e",";"," ","}">> }

\* Definitions, a requirement definition and a package without and with doc
\* blocks, with a block comment before them, and with both.
DocTexts ==
    { <<"p","a","c","k","a","g","e"," ","F","o","o",";">>,
      <<"t","y","p","e"," ","d","e","f"," ","F","o","o",";">>,
      <<"p","a","r","t"," ","d","e","f"," ","F","o","o",";">>,
      <<"r","e","q","u","i","r","e","m","e","n","t"," ","d","e","f"," ","R","e","q",";">>,
      <<"r","e","q","u","i","r","e","m","e","n","t"," ","d","e","f"," ","R","e","q"," ","{"," ","d","o","c"," ","/","*"," ","s","h","a","l","l"," ","h","o","l","d"," ","*","/"," ","}">>,
      <<"p","a","r","t"," ","d","e","f"," ","F","o","o"," ","{"," ","d","o","c"," ","/","*"," ","a"," ","b"," ","c"," ","*","/"," ","}">>,
      <<"p","a","r","t"," ","d","e","f"," ","F","o","o"," ","{"," ","d","o","c"," ","/","*"," ","e","x","p","l","i","c","i","t"," ","d","o","c"," ","*","/"," ","}">>,
      <<"/","*"," ","p","e","n","d","i","n","g"," ","t","e","x","t"," ","*","/"," ","p","a","r","t"," ","d","e","f"," ","F","o","o",";">>,
      <<"/","*"," ","p","e","n","d","i","n","g"," ","t","e","x","t"," ","*","/"," ","p","a","r","t"," ","d","e","f"," ","F","o","o"," ","{"," ","d","o","c"," ","/","*"," ","e","x","p","l","i","c","i","t"," ","d","o","c"," ","*","/"," ","}">>,
      <<"/","*"," ","p","e","n","d"," ","*","/"," ","p","a","r","t"," ","d","e","f"," ","F","o","o"," ","{"," ","d","o","c"," ","/","*"," ","e","x","p","l","i","c","i","t"," ","d","o","c"," ","*","/"," ","}">> }

\* Statements the parser skips: a body-only keyword, metadata, a bare sigil,
\* require and assume without constraint; closed by `;` or by a block.
SkipStatements ==
    { <<"p","e","r","f","o","r","m"," ","x",";">>, <<"@","M","e","t","a"," ","{"," ","k"," ","="," ","1",";"," ","}">>, <<"@","@","M",";">>, <<":",">",">"," ","x"," ","="," ","5",";">>,
      <<":",">"," ","y",";">>, <<":",":",">"," ","z"," ","{"," ","q",";"," ","}">>, <<"r","e","q","u","i","r","e"," ","x",";">>, <<"a","s","s","u","m","e"," ","{"," ","{"," ","}"," ","}">>,
      <<"i","f"," ","a"," ","{"," ","b",";"," ","}">> }

\* The same without a terminator of their own.
OpenStatements == { <<"p","e","r","f","o","r","m"," ","x">>, <<"@","M">>, <<":",">",">"," ","y">>, <<"r","e","q","u","i","r","e"," ","x">> }

SkipPrefix == <<"p","a","r","t"," ","d","e","f"," ","A"," ","{"," ">>

SkipSuffix == <<" ","p","a","r","t"," ","b",";"," ","}">>

OpenSuffix == <<" ","}"," ","p","a","r","t"," ","c",";">>

SkipTexts ==
    {SkipPrefix \o s \o SkipSuffix : s \in SkipStatements}
      \cup {SkipPrefix \o s \o OpenSuffix : s \in OpenStatements}

SampleTexts == NameTexts \cup DocTexts \cup SkipTexts

\* The whole pipeline on the sample declarations.
InitSamples == \E text \in SampleTexts : LintFileInit(text)

SpecSamples == InitSamples /\ [][Next]_vars

-----------------------------------------------------------------------------
(* C11, C12  naming                                                        *)

\* The whole of name is one character of first followed by characters of rest.
FullMatch(name, first, rest) ==
    /\ name # <<>>
    /\ name[1] \in first
    /\ \A i \in 2..Len(name) : name[i] \in rest

IsPascal(name) == FullMatch(name, UpperLetters, UpperLetters \cup LowerLetters \cup Digits)

IsCamelOrSnake(name) ==
    FullMatch(name, LowerLetters, UpperLetters \cup LowerLetters \cup Digits \cup {"_"})

\* The naming diagnostics at the position of e.
NamingAt(e) ==
    SelectSeq(diags, LAMBDA d : /\ d.rule_id \in {"W001", "W002", "W003"}
                                /\ d.line = e.line /\ d.col = e.col)

\* The rule id of the naming diagnostic the pattern of e's kind asks for, if any.
NamingExpected(e) ==
    IF e.kind \in _PACKAGE_KINDS THEN (IF IsPascal(e.name) THEN {} ELSE {"W003"})
    ELSE IF e.kind \in Naming_DEF_KINDS THEN (IF IsPascal(e.name) THEN {} ELSE {"W001"})
    ELSE IF e.kind \in _USAGE_KINDS THEN (IF IsCamelOrSnake(e.name) THEN {} ELSE {"W002"})
    ELSE {}

\* C11: a named definition gets W001 iff its name does not match
\* [A-Z][a-zA-Z0-9]*, a named package or namespace gets W003 iff its name does
\* not match that pattern, a named usage gets W002 iff its name does not match
\* [a-z][a-zA-Z0-9_]*; each is a warning, and no element gets more than one
\* naming diagnostic.
C11_NamingByPattern ==
    (phase = "done" /\ rule_ids = NoneSet) =>
        \A e \in AllElements(file.elements) :
            (e.name # None /\ e.name # <<>>) =>
                /\ Len(NamingAt(e)) <= 1
                /\ {d.rule_id : d \in Range(NamingAt(e))} = NamingExpected(e)
                /\ \A d \in Range(NamingAt(e)) : d.severity = "warning"

\* The tokens at the position of e that open a declaration.
OpeningTokens(toks, e) ==
    {k \in 1..Len(toks) : toks[k].line = e.line /\ toks[k].col = e.col}

\* The token that spells the name of the declaration opened at token k.
NameToken(toks, k) == IF toks[k + 1].type = "DEF" THEN toks[k + 2] ELSE toks[k + 1]

\* The name of e is written as a single-quoted string literal.
WrittenQuoted(e) ==
    /\ e.name # None
    /\ \E k \in OpeningTokens(p_tokens, e) :
          /\ p_tokens[k].type \in {"PART", "PACKAGE"}
          /\ NameToken(p_tokens, k).type = "STRING"

\* C12: an element whose name is written as a single-quoted string literal
\* gets none of W001, W002, W003, whatever stands between the quotes.
C12_QuotedNamesExempt ==
    phase = "done" =>
        \A e \in AllElements(file.elements) : WrittenQuoted(e) => NamingAt(e) = <<>>

-----------------------------------------------------------------------------
(* C13  documentation                                                      *)

\* The documentation diagnostics at the position of e.
DocAt(e) ==
    SelectSeq(diags, LAMBDA d : /\ d.rule_id \in {"W010", "W011", "W012"}
                                /\ d.line = e.line /\ d.col = e.col)

\* The number of characters of text that are not whitespace.
NonWhitespace(text) == Cardinality({i \in 1..Len(text) : text[i] \notin Whitespace})

IsRequirementDef(e) == e.kind = <<"r","e","q","u","i","r","e","m","e","n","t","_","d","e","f">>

\* C13: every named element whose kind ends in _def, and every named package
\* or namespace, gets exactly one documentation diagnostic if its doc is
\* absent or has fewer than 5 non-whitespace characters (a warning for
\* requirement_def, an info otherwise), and none if its doc has at least 5.
C13_DocRequired ==
    (phase = "done" /\ rule_ids = NoneSet) =>
        \A e \in AllElements(file.elements) :
            (/\ e.name # None /\ e.name # <<>>
             /\ endswith(e.kind, <<"_","d","e","f">>) \/ e.kind \in _PACKAGE_KINDS) =>
                IF e.doc = None \/ NonWhitespace(e.doc) < 5
                THEN /\ Len(DocAt(e)) = 1
                     /\ DocAt(e)[1].severity = IF IsRequirementDef(e) THEN "warning" ELSE "info"
                ELSE DocAt(e) = <<>>

-----------------------------------------------------------------------------
(* C14  doc attachment                                                     *)

IsDoc(e) == e.kind = <<"d","o","c">>

\* The doc-kind children of e.
DocChildren(e) == SelectSeq(e.body, IsDoc)

\* The block comments that stand immediately before the declaration of e.
CommentBefore(toks, e) ==
    {toks[k - 1].value : k \in {j \in OpeningTokens(toks, e) :
                                   j > 1 /\ toks[j - 1].type = "BLOCK_COMMENT"}}

\* C14: the doc of an element that follows a block comment is the stripped
\* text of the comment, unless its body holds a doc child: then it is the
\* text of the doc child.
C14_DocChildOverrides ==
    phase \in {"parsed", "done"} =>
        \A e \in Range(file.elements) : \A comment \in CommentBefore(p_tokens, e) :
            e.doc = IF DocChildren(e) # <<>> THEN DocChildren(e)[1].doc
                    ELSE _strip_comment(comment)

-----------------------------------------------------------------------------
(* C17  skipped statements                                                 *)

SkipTriggers ==
    _BODY_ONLY_KEYWORDS \cup {"AT_SIGN", "AT_AT", "COLON_GT", "COLON_GT_GT", "COLON_COLON_GT"}

\* The statement at cursor p is one that skip-to-terminator skips.
SkipStarts(toks, p) ==
    /\ p < Len(toks)
    /\ \/ toks[p + 1].type \in SkipTriggers
       \/ toks[p + 1].type \in {"REQUIRE", "ASSUME"} /\ toks[p + 2].type # "CONSTRAINT"

\* Opening minus closing braces among the tokens between the cursors a and b
\* is not negative / is zero.
Openings(toks, a, b) == Cardinality({i \in (a + 1)..b : toks[i].type = "LBRACE"})

Closings(toks, a, b) == Cardinality({i \in (a + 1)..b : toks[i].type = "RBRACE"})

\* The cursor after the statement at cursor p: after its `;`, after the `}`
\* that matches its `{`, or before the `}` or EOF that ends the body.
StatementEnd(toks, p) ==
    LET q == Min({i \in (p + 1)..Len(toks) :
                     toks[i].type \in {"SEMI", "LBRACE", "RBRACE", "EOF"}})
        closers == {i \in (q + 1)..Len(toks) :
                       /\ toks[i].type = "RBRACE"
                       /\ Openings(toks, q - 1, i) = Closings(toks, q - 1, i)}
    IN  IF toks[q].type = "SEMI" THEN q
        ELSE IF toks[q].type \in {"RBRACE", "EOF"} THEN q - 1
        ELSE IF closers # {} THEN Min(closers)
        ELSE Len(toks) - 1

\* A pass that starts at a skipped statement adds no element, ends after the
\* statement, and at no point has consumed more `}` than `{`.
C17_SkipStep ==
    (phase = "parse" /\ iterations' # iterations /\ SkipStarts(p_tokens, p_pos)) =>
        /\ stack' = stack
        /\ p_pos' = StatementEnd(p_tokens, p_pos)
        /\ \A i \in (p_pos + 1)..p_pos' :
              Closings(p_tokens, p_pos, i) <= Openings(p_tokens, p_pos, i)

\* The positions of the elements of the tree.
Positions(f) == {<<e.line, e.col>> : e \in AllElements(f.elements)}

\* `part def A { S part b; }`: b is the one child of A.  `part def A { S }
\* part c;`: A is empty and c follows it at the top level.  No diagnostic
\* stands anywhere but at A, b or c.
C17_RestParsed ==
    phase \in {"parsed", "done"} =>
        /\ \A s \in SkipStatements :
              source = SkipPrefix \o s \o SkipSuffix =>
                  /\ Len(file.elements) = 1
                  /\ file.elements[1].name = <<"A">>
                  /\ Len(file.elements[1].body) = 1
                  /\ LET b == file.elements[1].body[1]
                     IN  /\ b.kind = <<"p","a","r","t">> /\ b.name = <<"b">> /\ b.body = <<>>
                         /\ b.line = 1 /\ b.col = Len(SkipPrefix) + Len(s) + 2
                  /\ phase = "done" =>
                        \A d \in Range(diags) : <<d.line, d.col>> \in Positions(file)
        /\ \A s \in OpenStatements :
              source = SkipPrefix \o s \o OpenSuffix =>
                  /\ Len(file.elements) = 2
                  /\ file.elements[1].name = <<"A">> /\ file.elements[1].body = <<>>
                  /\ file.elements[2].name = <<"c">>
                  /\ file.elements[2].col = Len(SkipPrefix) + Len(s) + 4

\* C17: a statement skipped by skip-to-terminator yields no element and no
\* diagnostic, the skip ends after the statement's own `;` or its own
\* balanced block and never takes the `}` of the enclosing body, and the
\* elements after it are parsed as children of the same body.
C17_SkippedStatements == [](C17_RestParsed) /\ [][C17_SkipStep]_vars

\* A statement closed by a nested block has been skipped and b is parsed.
C17_Witness ==
    /\ phase = "done"
    /\ source = SkipPrefix \o <<"a","s","s","u","m","e"," ","{"," ","{"," ","}"," ","}">> \o SkipSuffix
    /\ Len(file.elements) = 1 /\ Len(file.elements[1].body) = 1

-----------------------------------------------------------------------------
(* syslint.main as a state machine around _lint_file.                      *)
(* phase: "main" (between two files of the loop over args.files), the      *)
(* phases of _lint_file while a file is linted, "exit" (main has returned).*)

\* The number of paths on the command line.
MaxFiles == 2

\* The files on disk: two readable ones; no file is at the third path.
PathA == <<"a",".","s","y","s","m","l">>
PathB == <<"b",".","s","y","s","m","l">>
PathMissing == <<"m","i","s","s","i","n","g",".","s","y","s","m","l">>

Paths == {PathA, PathB, PathMissing}

Readable(p) == p \in {PathA, PathB}

FileText(p) ==
    IF p = PathA THEN <<"p","a","r","t"," ","d","e","f"," ","e","n","g","i","n","e",";","\n","p","a","r","t"," ","W","h","e","e","l",";","\n">>
    ELSE <<"p","a","r","t"," ","d","e","f"," ","B"," ","{"," ","p","a","r","t"," ","x",";"," ","}","\n">>

\* args.files
ArgFiles == UNION {[1..n -> Paths] : n \in 1..MaxFiles}

\* rule_ids as main derives it from --rules: None or the set of listed ids.
ArgRules == {NoneSet, {"W001", "W010"}}

\* --min-severity
ArgSeverities == {"error", "warning", "info"}

\* min_order = {"error": 0, "warning": 1, "info": 2}[args.min_severity]
min_order(min_severity) ==
    CASE min_severity = "error" -> 0 [] min_severity = "warning" -> 1
      [] min_severity = "info" -> 2

\* The filter keeping only what is strictly more severe than the threshold.
SeverityFilterStrict(ds, m) == SelectSeq(ds, LAMBDA d : order(d.severity) < m)

\* [d for d in diags if d.severity.order <= min_order]
SeverityFilter(ds, m) == SelectSeq(ds, LAMBDA d : order(d.severity) <= m)

\* The value main returns after reporting all_diags.
ExitCode(ds) ==
    LET has_errors == \E i \in 1..Len(ds) : ds[i].severity = "error"
    IN  IF has_errors THEN 2
        ELSE IF ds # <<>> THEN 1
        ELSE 0

\* What main saw of one file: the text read, the tokens and the tree built
\* from it, the list _lint_file returned and the part of it main kept.
Linted(p, readable, src, toks, f, returned, kept) ==
    [path |-> p, readable |-> readable, source |-> src, tokens |-> toks, file |-> f,
     returned |-> returned, kept |-> kept]

\* The path the loop of main handles next.
NextPath == args.files[file_index + 1]

\* _lint_file(path, rule_ids): open(path) succeeds and Lexer(source) is built.
MainLintFile ==
    /\ phase = "main"
    /\ file_index < Len(args.files)
    /\ Readable(NextPath)
    /\ path' = NextPath
    /\ source' = FileText(NextPath)
    /\ pos' = Lexer_init.pos
    /\ line' = Lexer_init.line
    /\ col' = Lexer_init.col
    /\ tokens' = <<>>
    /\ iterations' = 0
    /\ rule_ids' = args.rule_ids
    /\ phase' = "lex"
    /\ UNCHANGED <<p_tokens, p_pos, stack, file, diags>>
    /\ UNCHANGED main_vars

\* A main that gives up at the first path it cannot read.
MainOpenFailsAborts ==
    /\ phase = "main"
    /\ file_index < Len(args.files)
    /\ ~ Readable(NextPath)
    /\ path' = NextPath
    /\ history' = Append(history, Linted(NextPath, FALSE, <<>>, <<>>, NoneObject, <<>>, <<>>))
    /\ file_index' = Len(args.files)
    /\ UNCHANGED <<source, pos, line, col, tokens, p_tokens, p_pos, stack, iterations, file,
                   rule_ids, diags, phase, args, all_diags, exit_code>>

\* _lint_file(path, rule_ids): open(path) raises OSError; _lint_file prints
\* the error and returns [], which main filters and appends like any list.
MainOpenFails ==
    /\ phase = "main"
    /\ file_index < Len(args.files)
    /\ ~ Readable(NextPath)
    /\ path' = NextPath
    /\ rule_ids' = args.rule_ids
    /\ diags' = SeverityFilter(<<>>, args.min_order)
    /\ all_diags' = all_diags \o SeverityFilter(<<>>, args.min_order)
    /\ history' = Append(history, Linted(NextPath, FALSE, <<>>, <<>>, NoneObject, <<>>,
                                         SeverityFilter(<<>>, args.min_order)))
    /\ file_index' = file_index + 1
    /\ UNCHANGED <<source, pos, line, col, tokens, p_tokens, p_pos, stack, iterations, file,
                   phase, args, exit_code>>

\* _lint_file has returned the list of check_file: main filters it by
\* severity and extends all_diags with what is left.
MainCollect ==
    /\ phase = "done"
    /\ args # NoneObject
    /\ diags' = SeverityFilter(diags, args.min_order)
    /\ all_diags' = all_diags \o SeverityFilter(diags, args.min_order)
    /\ history' = Append(history, Linted(path, TRUE, source, tokens, file, diags,
                                         SeverityFilter(diags, args.min_order)))
    /\ file_index' = file_index + 1
    /\ phase' = "main"
    /\ UNCHANGED <<source, path, pos, line, col, tokens, p_tokens, p_pos, stack, iterations,
                   file, rule_ids, args, exit_code>>

\* The loop over args.files is over: main reports all_diags and returns.
MainExit ==
    /\ phase = "main"
    /\ file_index = Len(args.files)
    /\ exit_code' = ExitCode(all_diags)
    /\ phase' = "exit"
    /\ UNCHANGED <<source, path, pos, line, col, tokens, p_tokens, p_pos, stack, iterations,
                   file, rule_ids, diags, args, file_index, all_diags, history>>

\* main(argv) after the command line is parsed.
MainInit(files, ids, min_severity) ==
    /\ args = [files |-> files, rule_ids |-> ids, min_order |-> min_order(min_severity)]
    /\ source = <<>>
    /\ path = <<>>
    /\ pos = 0 /\ line = 1 /\ col = 1
    /\ tokens = <<>>
    /\ p_tokens = <<>> /\ p_pos = 0 /\ stack = <<>> /\ iterations = 0
    /\ file = NoneObject
    /\ rule_ids = NoneSet
    /\ diags = <<>>
    /\ phase = "main"
    /\ file_index = 0
    /\ all_diags = <<>>
    /\ exit_code = NoneChar
    /\ history = <<>>

InitMain ==
    \E files \in ArgFiles, ids \in ArgRules, min_severity \in ArgSeverities :
        MainInit(files, ids, min_severity)

NextMain == Next \/ MainLintFile \/ MainOpenFails \/ MainCollect \/ MainExit

SpecMain == InitMain /\ [][NextMain]_vars

-----------------------------------------------------------------------------
(* C15  The merged list across files                                       *)

\* list is non-decreasing by (filename, line, col).
NonDecreasing(list) == \A i \in 1..(Len(list) - 1) : KeyLe(list[i], list[i + 1])

\* C15: the list main hands to the reporter after linting the files of the
\* command line is non-decreasing by (filename, line, col), whatever the
\* order in which the paths were given.
C15_MergedListSorted == phase = "exit" => NonDecreasing(all_diags)

\* The merged list when the paths are given in ascending order, once each.
C15_AscendingPathsSorted ==
    (phase = "exit" /\ \A i \in 1..(Len(args.files) - 1) :
                           StrLt(args.files[i], args.files[i + 1]))
        => NonDecreasing(all_diags)

-----------------------------------------------------------------------------
(* C16  The value main returns                                             *)

\* d is at least as severe as the threshold m (error < warning < info).
AtLeastAsSevere(d, m) == order(d.severity) <= m

\* What every rule finds in the tree of h, less what the rule-id allowlist and
\* the minimum severity of the command line exclude.
Remaining(h) ==
    IF ~ h.readable THEN {}
    ELSE {d \in Range(check_file(h.file, NoneSet)) :
            /\ args.rule_ids = NoneSet \/ d.rule_id \in args.rule_ids
            /\ AtLeastAsSevere(d, args.min_order)}

RemainingOfRun == UNION {Remaining(history[i]) : i \in 1..Len(history)}

\* The result the claim assigns to a set of remaining diagnostics.
ResultFor(remaining) ==
    IF remaining = {} THEN 0
    ELSE IF \E d \in remaining : d.severity = "error" THEN 2
    ELSE 1

\* Lists of up to two diagnostics of any severity.
SeverityLists ==
    UNION {[1..n -> {Diagnostic("W001", s, <<>>, PathA, 1, 1) :
                        s \in {"error", "warning", "info"}}] : n \in 0..2}

\* C16: the value main returns is 0 iff no diagnostic remains after the
\* rule-id allowlist and the minimum-severity filter, 2 iff an error-severity
\* diagnostic remains, and 1 otherwise; the filter keeps d iff d is at least
\* as severe as the threshold. No rule emits an error, so the case of 2 is
\* taken on lists of diagnostics passed through the filter and the return
\* statements of main.
C16_ExitCodeFromRemaining ==
    /\ phase = "exit" =>
          /\ Range(all_diags) = RemainingOfRun
          /\ exit_code = ResultFor(RemainingOfRun)
    /\ \A ds \in SeverityLists : \A m \in 0..2 :
          /\ Range(SeverityFilter(ds, m)) = {d \in Range(ds) : AtLeastAsSevere(d, m)}
          /\ ExitCode(SeverityFilter(ds, m))
                = ResultFor({d \in Range(ds) : AtLeastAsSevere(d, m)})

\* A run with an allowlist in which the severity filter drops a part of what
\* a file yields and keeps the rest.
C16_Witness ==
    /\ phase = "exit"
    /\ exit_code = 1
    /\ args.rule_ids # NoneSet
    /\ \E i \in 1..Len(history) :
          /\ history[i].kept # <<>>
          /\ Len(history[i].kept) < Len(history[i].returned)

-----------------------------------------------------------------------------
(* Parser.parse and _lint_file as functions of their arguments.            *)

\* elements.append(elem), on the result of a call of _parse_body.
Prepend(elem, rest) ==
    IF elem = NoneObject THEN rest
    ELSE [rest EXCEPT !.elements = <<elem>> \o @]

\* _parse_body(top_level) called with the cursor at p: the list it returns
\* and the cursor it leaves. passes bounds the passes through its loop.
RECURSIVE ParseBodyFrom(_, _, _, _)
ParseBodyFrom(toks, p, top_level, passes) ==
    LET Continue(r) ==
            IF r.break THEN [elements |-> <<>>, pos |-> r.pos]
            ELSE IF r.open
            THEN LET AfterBody(inner) ==
                         TailAfterBody(toks, r.elem, inner.elements, inner.pos)
                     ThenOthers(c) ==
                         Prepend(c.elem, ParseBodyFrom(toks, c.pos, top_level, passes - 1))
                 IN  ThenOthers(AfterBody(ParseBodyFrom(toks, r.pos, FALSE, passes - 1)))
            ELSE Prepend(r.elem, ParseBodyFrom(toks, r.pos, top_level, passes - 1))
    IN  IF passes = 0 THEN [elements |-> <<>>, pos |-> p]
        ELSE Continue(BodyPass(toks, p, top_level))

\* Parser(toks, filename).parse()
Parser_parse(toks, filename) ==
    File(filename,
         ParseBodyFrom(Parser_tokens(toks), 0, TRUE,
                       Len(Parser_tokens(toks)) + MaxExtraIterations).elements)

\* _lint_file(p, ids)
_lint_file(p, ids) ==
    IF ~ Readable(p) THEN <<>>
    ELSE check_file(Parser_parse(tokenize(FileText(p)), p), ids)

-----------------------------------------------------------------------------
(* C18  Tokenizing and parsing twice                                       *)

\* The files main has linted so far that could be read.
LintedFiles == {i \in 1..Len(history) : history[i].readable}

\* C18: two invocations of Lexer.tokenize on the same text return equal token
\* lists (type, value, line and col of every token), and two invocations of
\* Parser.parse on equal token lists return equal trees: each result is the
\* function of the input alone, whatever was tokenized or parsed before.
C18_SameInputSameResult ==
    /\ \A i \in LintedFiles : \A j \in LintedFiles :
          /\ history[i].source = history[j].source
                => history[i].tokens = history[j].tokens
          /\ history[i].tokens = history[j].tokens
                => history[i].file.elements = history[j].file.elements
    /\ \A i \in LintedFiles :
          /\ history[i].tokens = tokenize(history[i].source)
          /\ history[i].file = Parser_parse(history[i].tokens, history[i].path)

\* One run has tokenized and parsed the same text twice, and another text
\* before a text.
C18_Witness ==
    /\ phase = "exit"
    /\ Len(history) = 2
    /\ LintedFiles = {1, 2}
    /\ history[1].source = history[2].source
    /\ Len(history[2].tokens) > 1
    /\ history[2].file.elements # <<>>

-----------------------------------------------------------------------------
(* C19  check_file leaves the tree alone                                   *)

-----------------------------------------------------------------------------
(* C20  Files that cannot be read                                          *)

\* What the file at p contributes to a run of main that lists p alone.
AloneContribution(p) == SeverityFilter(_lint_file(p, args.rule_ids), args.min_order)

\* The contributions of the listed files, one after the other.
RECURSIVE Contributions(_)
Contributions(files) ==
    IF files = <<>> THEN <<>>
    ELSE AloneContribution(files[1]) \o Contributions(Tail(files))

-----------------------------------------------------------------------------
(* Lexer.tokenize on short texts over the characters of operators and      *)
(* literals.                                                               *)

\* Longest text enumerated character by character for the lexer.
MaxLexLen == 3

LexChars ==
    {"!", "=", ":", ">", "*", "-", ".", "?", "<", "@", "a", "1", "e", "+", "'", "\"", "\\",
     "/", "\n", " "}

\* Longer texts: numbers, strings and comments with and without an end,
\* operators that share prefixes, and blanks of every kind.
LexSamples ==
    { <<"1",".",".","5">>,
      <<"1",".","x">>,
      <<"1",".","5">>,
      <<".","5">>,
      <<"1","e","+","5">>,
      <<"1",".","5","e","-","1">>,
      <<"1",".","e","5">>,
      <<"'","a","\\","'","b">>,
      <<"'","\\","'","a">>,
      <<"\"","a","\\","\"">>,
      <<"'","a","'"," ","'","b">>,
      <<"\"","'","\""," ","1">>,
      <<"/","*"," ","a">>,
      <<"/","*","/"," ","a">>,
      <<"/","*"," ","*","/"," ","a">>,
      <<"/","*","*","/","'">>,
      <<"a"," ","!","=","="," ","b">>,
      <<":",":",":",">">>,
      <<":",":",">",">">>,
      <<"=","=","=",">">>,
      <<"!","=","=","=">>,
      <<"a","\n"," "," ","b","\t","c","\r","\n"," ","d">>,
      <<"'","a","\n","b","'"," ","c">>,
      <<"/","*","\n","*","/"," ",".",".">> }

LexSources == Strings(LexChars, MaxLexLen) \cup LexSamples

InitLex == \E text \in LexSources : LintFileInit(text)

NextLex == LexerTokenize

SpecLex == InitLex /\ [][NextLex]_vars

\* The cursor _skip_whitespace leaves when called at p: the first position
\* from p on that holds no blank, or the end of the text.
FirstNonBlank(src, p) ==
    CHOOSE q \in p..Len(src) :
        /\ \A i \in (p + 1)..q : src[i] \in Whitespace
        /\ q < Len(src) => src[q + 1] \notin Whitespace

\* The token the current call of _next_token has appended.
NewToken == tokens'[Len(tokens')]

-----------------------------------------------------------------------------
(* C21  Operators are matched longest first                                *)

\* The compound operators.
Compounds ==
    { <<"!","=","=">>, <<":",":",">">>, <<":",">",">">>, <<"=","=","=">>, <<"!","=">>, <<"*","*">>, <<"-",">">>,
      <<".",".">>, <<".","?">>, <<":",":">>, <<":","=">>, <<":",">">>, <<"<","=">>, <<"=","=">>,
      <<"=",">">>, <<">","=">>, <<"?","?">>, <<"@","@">> }

\* An operator starts at p: the character there begins a compound form and
\* does not begin a number.
OperatorStartsAt(src, p) ==
    /\ p < Len(src)
    /\ src[p + 1] \in {c[1] : c \in Compounds}
    /\ ~ (src[p + 1] = "." /\ p + 1 < Len(src) /\ src[p + 2] \in Digits)

\* The longest compound form the text goes on with at p, or the character at
\* p when it goes on with none.
LongestOperator(src, p) ==
    LET matches == {c \in Compounds : StartsWithAt(src, p, c)}
    IN  IF matches = {} THEN <<src[p + 1]>>
        ELSE CHOOSE c \in matches : \A d \in matches : Len(d) <= Len(c)

C21_Step ==
    LET Emitted(p) ==
            OperatorStartsAt(source, p) =>
                /\ NewToken.value = LongestOperator(source, p)
                /\ pos' = p + Len(LongestOperator(source, p))
                /\ NewToken.value = <<"!">> => NewToken.type = "IDENTIFIER"
    IN  phase = "lex" => Emitted(FirstNonBlank(source, pos))

\* C21: where an operator starts, the token emitted is the longest compound
\* operator the remaining text begins with, and the single character only
\* when it begins with none; a `!` without `=` behind it is an IDENTIFIER
\* token with the text `!`.
C21_LongestOperator == [][C21_Step]_vars

\* A text has been tokenized in which a `!` stands alone before a compound
\* operator, and one of three characters where a shorter form also matches.
C21_Witness ==
    /\ phase = "lexed"
    /\ \/ /\ Len(tokens) = 3
          /\ tokens[1].value = <<"!">> /\ tokens[1].type = "IDENTIFIER"
          /\ tokens[2].value \in Compounds
       \/ /\ Len(tokens) = 3
          /\ tokens[1].value = <<":",":">>
          /\ tokens[2].value = <<":",":",">">>

-----------------------------------------------------------------------------
(* C22  Numeric literals                                                   *)

IsNumber(t) == t.type \in {"INTEGER", "REAL"}

\* The types and texts of the tokens, without their positions.
Spelled(toks) == [i \in 1..Len(toks) |-> <<toks[i].type, toks[i].value>>]

\* The position behind the digits that start at p.
DigitsEnd(src, p) ==
    CHOOSE q \in p..Len(src) :
        /\ \A i \in (p + 1)..q : src[i] \in Digits
        /\ q < Len(src) => src[q + 1] \notin Digits

C22_Tokens ==
    \A i \in 1..Len(tokens) :
        IsNumber(tokens[i]) =>
            LET v == tokens[i].value
            IN  /\ \A k \in 1..Len(v) : v[k] = "." => (k < Len(v) /\ v[k + 1] \in Digits)
                /\ tokens[i].type = "REAL" <=> \E k \in 1..Len(v) : v[k] \in {".", "e", "E"}

C22_Examples ==
    phase = "lexed" =>
        /\ source = <<"1",".",".","5">> =>
              Spelled(tokens) = << <<"INTEGER", <<"1">>>>, <<"DOT_DOT", <<".",".">>>>,
                                   <<"INTEGER", <<"5">>>>, <<"EOF", <<>> >> >>
        /\ source = <<"1",".","x">> =>
              Spelled(tokens) = << <<"INTEGER", <<"1">>>>, <<"DOT", <<".">>>>,
                                   <<"IDENTIFIER", <<"x">>>>, <<"EOF", <<>> >> >>
        /\ source = <<"1",".","5">> =>
              Spelled(tokens) = << <<"REAL", <<"1",".","5">>>>, <<"EOF", <<>> >> >>
        /\ source = <<".","5">> =>
              Spelled(tokens) = << <<"REAL", <<".","5">>>>, <<"EOF", <<>> >> >>

C22_Step ==
    LET Number(p, q) ==
            (p < Len(source) /\ source[p + 1] \in Digits) =>
                /\ IsNumber(NewToken)
                /\ SubSeq(NewToken.value, 1, q - p) = SubSeq(source, p + 1, q)
                /\ (\E k \in 1..Len(NewToken.value) : NewToken.value[k] = ".")
                      <=> (q + 1 < Len(source) /\ source[q + 1] = "."
                                               /\ source[q + 2] \in Digits)
        From(p) == Number(p, DigitsEnd(source, p))
    IN  phase = "lex" => From(FirstNonBlank(source, pos))

\* C22: a `.` behind the digits of a number belongs to the number if and only
\* if a digit follows it, so `1..5` is INTEGER DOT_DOT INTEGER, `1.x` is
\* INTEGER DOT IDENTIFIER, and `1.5` and `.5` are one REAL each; a number is
\* REAL iff it has a fraction or an exponent, and INTEGER otherwise.
C22_NumberDot == [](C22_Tokens /\ C22_Examples) /\ [][C22_Step]_vars

\* `1..5` has been tokenized.
C22_Witness ==
    /\ phase = "lexed"
    /\ source = <<"1",".",".","5">>
    /\ Len(tokens) = 4

-----------------------------------------------------------------------------
(* C23  Literals without an end                                            *)

\* The character at k of the string text v is taken by a backslash before it.
RECURSIVE Escaped(_, _)
Escaped(v, k) == k > 2 /\ v[k - 1] = "\\" /\ ~ Escaped(v, k - 1)

\* The string text v is closed at k by its own quote.
ClosesAt(v, k) == k > 1 /\ v[k] = v[1] /\ ~ Escaped(v, k)

\* The comment text v is closed by the marker ending at k.
CommentClosesAt(v, k) == k > 3 /\ v[k - 1] = "*" /\ v[k] = "/"

C23_Step ==
    LET v == NewToken.value
        ToTheEnd == pos' = Len(source)
        Literal(p) ==
            /\ (p < Len(source) /\ source[p + 1] \in {"'", "\""}) =>
                  /\ NewToken.type = (IF source[p + 1] = "'" THEN "STRING" ELSE "DOUBLE_STRING")
                  /\ v = SubSeq(source, p + 1, pos')
                  /\ \A k \in 1..(Len(v) - 1) : ~ ClosesAt(v, k)
                  /\ ClosesAt(v, Len(v)) \/ ToTheEnd
            /\ StartsWithAt(source, p, <<"/", "*">>) =>
                  /\ NewToken.type = "BLOCK_COMMENT"
                  /\ v = SubSeq(source, p + 1, pos')
                  /\ \A k \in 1..(Len(v) - 1) : ~ CommentClosesAt(v, k)
                  /\ CommentClosesAt(v, Len(v)) \/ ToTheEnd
    IN  phase = "lex" =>
            /\ Literal(FirstNonBlank(source, pos))
            /\ pos = Len(source) => (NewToken.type = "EOF" /\ phase' = "lexed")

\* Tokenizing fails on no text: it goes on until EOF is appended.
C23_Ends ==
    /\ phase \in {"lex", "lexed"}
    /\ phase = "lexed" => (tokens # <<>> /\ tokens[Len(tokens)].type = "EOF")

\* C23: a string or block comment without an end is one token that runs from
\* its opening delimiter to the end of the text and is followed by EOF
\* directly, and tokenizing never fails on it; in a string a backslash takes
\* the character behind it, so a quote behind a backslash does not close
\* the string.
C23_UnterminatedLiterals == [](C23_Ends) /\ [][C23_Step]_vars

\* A string whose only further quote is escaped, and so has no end, has been
\* tokenized to the end of the text.
C23_Witness ==
    /\ phase = "lexed"
    /\ Len(tokens) = 2
    /\ tokens[1].type = "STRING"
    /\ tokens[1].value = source
    /\ \E k \in 3..Len(source) : source[k] = "'" /\ Escaped(source, k)
    /\ Len(source) > 3

-----------------------------------------------------------------------------
(* C28  Tokens are the text, at exact positions                            *)

\* The positions of the newlines among the first p characters of src.
NewlinesBefore(src, p) == {i \in 1..p : src[i] = "\n"}

\* Line and column of the character behind the first p characters of src.
LineAt(src, p) == 1 + Cardinality(NewlinesBefore(src, p))

ColAt(src, p) ==
    LET nl == NewlinesBefore(src, p)
    IN  IF nl = {} THEN p + 1
        ELSE p + 1 - (CHOOSE i \in nl : \A j \in nl : j <= i)

C28_Step ==
    LET Scanned(start) ==
            /\ start <= pos'
            /\ NewToken.value = SubSeq(source, start + 1, pos')
            /\ NewToken.type # "EOF" => Len(NewToken.value) > 0
            /\ NewToken.type = "EOF" => start = Len(source)
            /\ NewToken.line = LineAt(source, start)
            /\ NewToken.col = ColAt(source, start)
            /\ line' = LineAt(source, pos')
            /\ col' = ColAt(source, pos')
    IN  phase = "lex" =>
            /\ tokens' = Append(tokens, NewToken)
            /\ Scanned(FirstNonBlank(source, pos))

\* C28: every token's text is the piece of the source it was scanned from,
\* not empty unless the token is EOF; the tokens follow one another in the
\* source without overlap, with nothing but space, tab, CR and LF between
\* them; and line and col of a token are the position of its first
\* character, the line counted up and the column set back to 1 after every
\* newline.
C28_LosslessTokens == [][C28_Step]_vars

\* A text of several lines has been tokenized, with a token behind blanks on
\* a later line.
C28_Witness ==
    /\ phase = "lexed"
    /\ \E i \in 1..Len(tokens) :
          /\ tokens[i].type # "EOF"
          /\ tokens[i].line > 1
          /\ tokens[i].col > 1
    /\ \E i \in 1..Len(tokens) : tokens[i].line = 1 /\ tokens[i].type # "EOF"

-----------------------------------------------------------------------------
(* The whole pipeline on texts chosen for the structure rules, for values   *)
(* behind `=`, for the order of elements and names, and for every kind of   *)
(* element the parser builds.                                               *)

StructureTexts ==
    { <<"r","e","q","u","i","r","e","m","e","n","t"," ","d","e","f"," ","R",";">>,
      <<"r","e","q","u","i","r","e","m","e","n","t"," ","d","e","f"," ","R"," ","{"," ","s","u","b","j","e","c","t"," ","s"," ",":"," ","S",";"," ","}">>,
      <<"r","e","q","u","i","r","e","m","e","n","t"," ","d","e","f"," ","R"," ","{"," ","r","e","q","u","i","r","e"," ","c","o","n","s","t","r","a","i","n","t"," ","{"," ","x"," ",">"," ","1"," ","}"," ","}">>,
      <<"r","e","q","u","i","r","e","m","e","n","t"," ","d","e","f"," ","R"," ","{"," ","s","u","b","j","e","c","t"," ","s",";"," ","r","e","q","u","i","r","e"," ","c","o","n","s","t","r","a","i","n","t"," ","{"," ","x"," ","}"," ","}">>,
      <<"r","e","q","u","i","r","e","m","e","n","t"," ","d","e","f"," ","R"," ","{"," ","r","e","q","u","i","r","e","m","e","n","t"," ","r","1",";"," ","}">>,
      <<"r","e","q","u","i","r","e","m","e","n","t"," ","d","e","f"," ","R"," ","{"," ","r","e","q","u","i","r","e","m","e","n","t"," ","d","e","f"," ","Q"," ","{"," ","s","u","b","j","e","c","t"," ","s",";"," ","}"," ","}">>,
      <<"r","e","q","u","i","r","e","m","e","n","t"," ","d","e","f"," ","R"," ","{"," ","p","a","r","t"," ","p"," ","{"," ","s","u","b","j","e","c","t"," ","s",";"," ","r","e","q","u","i","r","e"," ","c","o","n","s","t","r","a","i","n","t"," ","{"," ","x"," ","}"," ","}"," ","}">>,
      <<"r","e","q","u","i","r","e","m","e","n","t"," ","d","e","f"," ","R"," ","{"," ","a","s","s","u","m","e"," ","c","o","n","s","t","r","a","i","n","t"," ","{"," ","x"," ","}"," ","}">>,
      <<"r","e","q","u","i","r","e","m","e","n","t"," ","d","e","f"," ","R"," ","{"," ","r","e","q","u","i","r","e"," ","x",";"," ","}">>,
      <<"r","e","q","u","i","r","e","m","e","n","t"," ","d","e","f"," ","R"," ","{"," ","d","o","c"," ","/","*"," ","s","h","a","l","l"," ","h","o","l","d"," ","a","l","w","a","y","s"," ","*","/"," ","}">>,
      <<"r","e","q","u","i","r","e","m","e","n","t"," ","d","e","f"," ","{"," ","p","a","r","t"," ","p",";"," ","}">>,
      <<"r","e","q","u","i","r","e","m","e","n","t"," ","r"," ","{"," ","p","a","r","t"," ","p",";"," ","}">>,
      <<"p","a","r","t"," ","d","e","f"," ","A"," ","{"," ","}">>,
      <<"p","a","r","t"," ","d","e","f"," ","A"," ","{"," ","d","o","c"," ","/","*"," ","t","e","x","t"," ","o","f"," ","A"," ","*","/"," ","}">>,
      <<"p","a","r","t"," ","d","e","f"," ","A"," ","{"," ","c","o","m","m","e","n","t"," ","/","*"," ","c"," ","*","/"," ","d","o","c"," ","/","*"," ","t","e","x","t"," ","o","f"," ","A"," ","*","/"," ","}">>,
      <<"p","a","r","t"," ","d","e","f"," ","A"," ","{"," ","i","m","p","o","r","t"," ","B",":",":","*",";"," ","}">>,
      <<"a","c","t","i","o","n"," ","d","e","f"," ","A"," ","{"," ","f","i","r","s","t"," ","s",";"," ","}">>,
      <<"a","c","t","i","o","n"," ","d","e","f"," ","A"," ","{"," ","a","c","t","i","o","n"," ","a",";"," ","}">>,
      <<"a","c","t","i","o","n"," ","d","e","f"," ","A"," ","{"," ","a","c","t","i","o","n"," ","a",";"," ","t","h","e","n"," ","b",";"," ","}">>,
      <<"p","a","r","t"," ","d","e","f"," ","A"," ","{"," ","p","e","r","f","o","r","m"," ","x",";"," ","}">>,
      <<"p","a","r","t"," ","d","e","f"," ","A"," ","{"," ",";"," ","}">>,
      <<"p","a","r","t"," ","d","e","f"," ","{"," ","}">>,
      <<"p","a","c","k","a","g","e"," ","P"," ","{"," ","}">>,
      <<"p","a","r","t"," ","a"," ","{"," ","}">>,
      <<"e","n","u","m"," ","d","e","f"," ","E",";">>,
      <<"u","s","e"," ","c","a","s","e"," ","d","e","f"," ","U",";">>,
      <<"u","s","e"," ","c","a","s","e"," ","d","e","f"," ","U"," ","{"," ","c","o","m","m","e","n","t"," ","/","*"," ","c"," ","*","/"," ","}">>,
      <<"s","t","a","t","e"," ","d","e","f"," ","S"," ","{"," ","p","a","r","t"," ","d","e","f"," ","T",";"," ","}">> }

ExpressionTexts ==
    { <<"a","t","t","r","i","b","u","t","e"," ","x"," ","="," ","1",";">>,
      <<"a","t","t","r","i","b","u","t","e"," ","x"," ","="," ","1">>,
      <<"p","a","r","t"," ","d","e","f"," ","A"," ","{"," ","a","t","t","r","i","b","u","t","e"," ","x"," ","="," ","1",";"," ","p","a","r","t"," ","b",";"," ","}">>,
      <<"p","a","r","t"," ","d","e","f"," ","A"," ","{"," ","a","t","t","r","i","b","u","t","e"," ","x"," ","="," ","f","(","a",";"," ","b",")",";"," ","p","a","r","t"," ","b",";"," ","}">>,
      <<"p","a","r","t"," ","d","e","f"," ","A"," ","{"," ","a","t","t","r","i","b","u","t","e"," ","x"," ","="," ","[","1",";"," ","(","2",";"," ","3",")","]",";"," ","p","a","r","t"," ","b",";"," ","}">>,
      <<"p","a","r","t"," ","d","e","f"," ","A"," ","{"," ","a","t","t","r","i","b","u","t","e"," ","x"," ","="," ","1"," ","}"," ","p","a","r","t"," ","c",";">>,
      <<"p","a","r","t"," ","d","e","f"," ","A"," ","{"," ","a","t","t","r","i","b","u","t","e"," ","x"," ","="," ","(","1","]"," ",";"," ","p","a","r","t"," ","b",";"," ","}">>,
      <<"p","a","r","t"," ","d","e","f"," ","A"," ","{"," ","a","t","t","r","i","b","u","t","e"," ","x"," ","="," ","{"," ","p","a","r","t"," ","y",";"," ","}",";"," ","p","a","r","t"," ","b",";"," ","}">>,
      <<"p","a","r","t"," ","d","e","f"," ","A"," ","{"," ","a","t","t","r","i","b","u","t","e"," ","x"," ",":"," ","T"," ","="," ","(","1"," ","+"," ","2",")"," ","}"," ","p","a","r","t"," ","c",";">>,
      <<"p","a","r","t"," ","d","e","f"," ","A"," ","{"," ","a","t","t","r","i","b","u","t","e"," ","x"," ",":"," ","T"," ","="," ","g","(","1",")"," ",")"," ","p","a","r","t"," ","b",";"," ","}">>,
      <<"p","a","r","t"," ","d","e","f"," ","A"," ","{"," ","a","t","t","r","i","b","u","t","e"," ","x"," ","="," ","5"," ","{"," ","p","a","r","t"," ","y",";"," ","}"," ","p","a","r","t"," ","z",";"," ","p","a","r","t"," ","b",";"," ","}">>,
      <<"a","t","t","r","i","b","u","t","e"," ","x"," ","="," ","("," ",";"," ">> }

OrderTexts ==
    { <<"p","a","r","t"," ","d","e","f"," ","A"," ",":",">"," ","B",","," ","C",","," ","D",";">>,
      <<"p","a","r","t"," ","d","e","f"," ","A"," ","s","p","e","c","i","a","l","i","z","e","s"," ","Z",","," ","M",":",":","N",","," ","B"," ","{"," ","p","a","r","t"," ","z",";"," ","p","a","r","t"," ","a",";"," ","p","a","r","t"," ","m",";"," ","}">>,
      <<"p","a","r","t"," ","c",";"," ","p","a","r","t"," ","a",";"," ","p","a","r","t"," ","b",";">>,
      <<"p","a","r","t"," ","d","e","f"," ","A"," ",":",">"," ","Q",":",":","R",","," ","P"," ","{"," ","p","a","r","t"," ","y"," ",":",">"," ","W",","," ","V",";"," ","p","a","r","t"," ","x",";"," ","}"," ","p","a","r","t"," ","d","e","f"," ","B",";">>,
      <<"p","a","r","t"," ","b",";","\n","p","a","r","t"," ","a",";","\n"," "," ","p","a","r","t"," ","d","e","f"," ","C"," ","{"," ","p","a","r","t"," ","e",";","\n"," ","p","a","r","t"," ","d",";"," ","}">> }

KindTexts ==
    { <<"a","c","t","i","o","n"," ","d","e","f"," ","A"," ","{"," ","i","n"," ","x"," ",":"," ","T",";"," ","o","u","t"," ","y",";"," ","r","e","t","u","r","n"," ","r"," ",":"," ","R",";"," ","f","i","r","s","t"," ","s",";"," ","t","h","e","n"," ","t",";"," ","}">>,
      <<"u","s","e"," ","c","a","s","e"," ","u",";">>,
      <<"u","s","e"," ","c","a","s","e"," ","d","e","f"," ","U"," ","{"," ","i","m","p","o","r","t"," ","A",":",":","B",";"," ","i","m","p","o","r","t"," ","C",":",":","*",";"," ","i","m","p","o","r","t"," ","*",";"," ","}">>,
      <<"p","r","i","v","a","t","e"," ","i","m","p","o","r","t"," ","A",";"," ","c","o","m","m","e","n","t"," ","C"," ","/","*"," ","c"," ","*","/"," ","d","o","c"," ","/","*"," ","d"," ","*","/">>,
      <<"a","b","s","t","r","a","c","t"," ","p","a","r","t"," ","d","e","f"," ","A"," ","{"," ","i","n","o","u","t"," ","i","t","e","m"," ","i"," ","[","2","]",";"," ","r","e","q","u","i","r","e"," ","c","o","n","s","t","r","a","i","n","t"," ","c",";"," ","}">>,
      <<"p","a","c","k","a","g","e"," ","P"," ","{"," ","p","a","r","t"," ","d","e","f"," ","e","n","g","i","n","e",";"," ","p","a","r","t"," ","W","h","e","e","l",";"," ","p","a","r","t"," ","'","o","d","d"," ","o","n","e","'",";"," ","p","a","r","t"," ","x",";"," ","p","a","r","t"," ","x",";"," ","i","m","p","o","r","t"," ","A",":",":","B",";"," ","}">>,
      <<"p","a","r","t"," ","d","e","f"," ","F","o","o"," ","{"," ","d","o","c"," ","/","*"," ","x"," ","*","/"," ","}"," ","r","e","q","u","i","r","e","m","e","n","t"," ","d","e","f"," ","R",";">> }

\* A text on which rules of every module of rules/ report.
SeverityTexts ==
    { <<"p","a","c","k","a","g","e"," ","t","a","n","k","_","m","o","d","e","l"," ","{"," ","i","m","p","o","r","t"," ","L","i","b",":",":","*",";"," ","p","a","r","t"," ","d","e","f"," ","e","n","g","i","n","e",";"," ","p","a","r","t"," ","W","h","e","e","l",";"," ","p","a","r","t"," ","W","h","e","e","l",";"," ","r","e","q","u","i","r","e","m","e","n","t"," ","d","e","f"," ","R",";"," ","}">> }

TreeTexts ==
    StructureTexts \cup ExpressionTexts \cup OrderTexts \cup KindTexts \cup SeverityTexts

InitTrees == \E text \in TreeTexts : LintFileInit(text)

SpecTrees == InitTrees /\ [][Next]_vars

-----------------------------------------------------------------------------
(* C24  Requirement definitions                                            *)

\* The named requirement definitions of a tree.
ReqDefs(f) ==
    {e \in AllElements(f.elements) : e.kind = <<"r","e","q","u","i","r","e","m","e","n","t","_","d","e","f">> /\ Truthy(e.name)}

\* The kinds of the direct children of e.
ChildKinds(e) == {e.body[i].kind : i \in 1..Len(e.body)}

HasSubRequirement(e) ==
    ChildKinds(e) \cap {<<"r","e","q","u","i","r","e","m","e","n","t">>, <<"r","e","q","u","i","r","e","m","e","n","t","_","d","e","f">>} # {}

\* diags holds exactly one diagnostic rule_id at e, of the given severity, if
\* `due` and the rule is reported, and none otherwise.
EmittedIff(rule_id, severity, e, due) ==
    /\ Len(At(diags, rule_id, e)) = (IF due /\ Reports(rule_id) THEN 1 ELSE 0)
    /\ \A d \in Range(At(diags, rule_id, e)) : d.severity = severity

\* C24: a named requirement definition gets W021 (warning) iff none of its
\* direct children is a subject and none is a requirement or requirement
\* definition, and W022 (info) iff none of its direct children is a
\* require_constraint and none is a requirement or requirement definition;
\* either is emitted with or without the other.
C24_RequirementChecks ==
    phase = "done" =>
        \A e \in ReqDefs(file) :
            /\ EmittedIff("W021", "warning", e,
                          <<"s","u","b","j","e","c","t">> \notin ChildKinds(e) /\ ~ HasSubRequirement(e))
            /\ EmittedIff("W022", "info", e,
                          <<"r","e","q","u","i","r","e","_","c","o","n","s","t","r","a","i","n","t">> \notin ChildKinds(e)
                              /\ ~ HasSubRequirement(e))

\* check_file has reported W022 without W021 for a requirement definition
\* and neither for the one around it.
C24_Witness ==
    /\ phase = "done"
    /\ rule_ids = NoneSet
    /\ \E e \in ReqDefs(file) :
          Len(At(diags, "W022", e)) = 1 /\ Len(At(diags, "W021", e)) = 0
    /\ \E e \in ReqDefs(file) :
          Len(At(diags, "W022", e)) = 0 /\ Len(At(diags, "W021", e)) = 0

-----------------------------------------------------------------------------
(* C25  Empty definitions                                                  *)

\* The named elements of a substantive definition kind.
SubstantiveDefs(f) ==
    {e \in AllElements(f.elements) : e.kind \in _SUBSTANTIVE_DEFS /\ Truthy(e.name)}

\* C25: a named element of a substantive definition kind gets W020 (info)
\* iff every child in its body is a doc or a comment; any other child, an
\* import or a sequencing element included, makes the body count as filled.
\* No other element gets W020.
C25_EmptyBody ==
    phase = "done" =>
        /\ \A e \in SubstantiveDefs(file) :
              EmittedIff("W020", "info", e,
                         ChildKinds(e) \subseteq {<<"d","o","c">>, <<"c","o","m","m","e","n","t">>})
        /\ \A d \in Range(diags) :
              d.rule_id = "W020" =>
                  \E e \in SubstantiveDefs(file) : d.line = e.line /\ d.col = e.col

\* check_file has reported a definition whose body holds a doc and a comment
\* and nothing else.
C25_Witness ==
    /\ phase = "done"
    /\ rule_ids = NoneSet
    /\ \E e \in SubstantiveDefs(file) :
          /\ ChildKinds(e) = {<<"d","o","c">>, <<"c","o","m","m","e","n","t">>}
          /\ Len(At(diags, "W020", e)) = 1

-----------------------------------------------------------------------------
(* C26: the value expression after `=`.                                    *)

_OPENING == {"LBRACE", "LPAREN", "LBRACK"}

_CLOSING == {"RBRACE", "RPAREN", "RBRACK"}

\* `attribute x : T =` is read at cursor p.
TypedValueAt(toks, p) ==
    /\ _at(toks, p, {"ATTRIBUTE"}) /\ _at(toks, p + 1, {"IDENTIFIER"})
    /\ _at(toks, p + 2, {"COLON"}) /\ _at(toks, p + 3, {"IDENTIFIER"})
    /\ _at(toks, p + 4, {"EQ"})

\* `attribute x =` or `attribute x : T =` is read at cursor p.
ValueAt(toks, p) ==
    \/ /\ _at(toks, p, {"ATTRIBUTE"}) /\ _at(toks, p + 1, {"IDENTIFIER"})
       /\ _at(toks, p + 2, {"EQ"})
    \/ TypedValueAt(toks, p)

\* The cursor after the `=` of the statement read at cursor p.
ValueStart(toks, p) == IF TypedValueAt(toks, p) THEN p + 5 ELSE p + 3

\* The number of tokens of the given types at cursors q .. i - 1.
CountOf(toks, q, i, types) == Cardinality({k \in q..(i - 1) : _at(toks, k, types)})

\* Whether every bracket opened at cursors q .. i - 1 is closed there, and
\* whether some bracket is still open.
AtDepthZero(toks, q, i) == CountOf(toks, q, i, _OPENING) = CountOf(toks, q, i, _CLOSING)

Nested(toks, q, i) == CountOf(toks, q, i, _OPENING) > CountOf(toks, q, i, _CLOSING)

\* The token at cursor i ends the expression that starts at cursor q.
ExprEndsAt(toks, q, i) ==
    \/ _at(toks, i, {"EOF"})
    \/ _at(toks, i, {"SEMI"} \cup _CLOSING) /\ AtDepthZero(toks, q, i)

FirstExprEnd(toks, q) ==
    CHOOSE i \in q..Len(toks) :
        ExprEndsAt(toks, q, i) /\ \A j \in q..(i - 1) : ~ ExprEndsAt(toks, q, j)

\* Where the cursor is to be after the expression: past a `;`, on a closing
\* bracket or on EOF.
ExprStop(toks, q) ==
    IF _at(toks, FirstExprEnd(toks, q), {"SEMI"})
    THEN FirstExprEnd(toks, q) + 1 ELSE FirstExprEnd(toks, q)

\* The element last appended by the innermost _parse_body.
LastOf(frames) == frames[Len(frames)].elements[Len(frames[Len(frames)].elements)]

C26_Step ==
    (phase = "parse" /\ ValueAt(p_tokens, p_pos)) =>
        /\ p_pos' = ExprStop(p_tokens, ValueStart(p_tokens, p_pos))
        /\ Len(stack') = Len(stack)
        /\ Len(stack'[Len(stack')].elements) = Len(Top.elements) + 1
        /\ LastOf(stack').kind = <<"a","t","t","r","i","b","u","t","e">>
        /\ LastOf(stack').name = _cur(p_tokens, p_pos + 1).value
        /\ LastOf(stack').body = <<>>

\* C26: the skip of a value expression after `=` counts the depth of
\* parentheses, braces and brackets.  It ends past the first `;` at depth 0,
\* or on the first closing bracket at depth 0, or at EOF, a `;` or a closing
\* bracket inside a nested pair does not end it, and the element read this
\* way has an empty body.
C26_ExpressionSkip == [][C26_Step]_vars

\* The parser has just skipped a value expression that holds a `;` inside a
\* bracket pair, and has appended its element.
C26_Witness ==
    /\ phase = "parse"
    /\ Top.elements # <<>>
    /\ LastOf(stack).kind = <<"a","t","t","r","i","b","u","t","e">>
    /\ LastOf(stack).body = <<>>
    /\ \E p \in 0..Len(p_tokens) :
          /\ ValueAt(p_tokens, p)
          /\ ExprStop(p_tokens, ValueStart(p_tokens, p)) = p_pos
          /\ \E i \in ValueStart(p_tokens, p)..(p_pos - 2) :
                /\ _at(p_tokens, i, {"SEMI"})
                /\ Nested(p_tokens, ValueStart(p_tokens, p), i)

-----------------------------------------------------------------------------
(* C27: source order of siblings and of specialised names.                 *)

\* The cursor of the first token of element e in the parser's token list.
FirstToken(toks, e) ==
    CHOOSE k \in 0..(Len(toks) - 1) :
        _cur(toks, k).line = e.line /\ _cur(toks, k).col = e.col

\* The least cursor from p on whose token has one of the given types; the
\* token list ends with EOF.
NextOf(toks, p, types) ==
    CHOOSE i \in p..Len(toks) :
        _at(toks, i, types \cup {"EOF"})
            /\ \A j \in p..(i - 1) : ~ _at(toks, j, types \cup {"EOF"})

\* The texts written at cursors i .. end - 1, separated by commas: acc holds
\* the texts complete so far and name the one being read.
RECURSIVE WrittenNames(_, _, _, _, _)
WrittenNames(toks, i, end, name, acc) ==
    IF i >= end THEN Append(acc, name)
    ELSE IF _at(toks, i, {"COMMA"}) THEN WrittenNames(toks, i + 1, end, <<>>, Append(acc, name))
    ELSE WrittenNames(toks, i + 1, end, name \o _cur(toks, i).value, acc)

\* The names written after `:>` or `specializes` in the header of the
\* element whose first token is at cursor k.
WrittenSpecializes(toks, k) ==
    LET end == NextOf(toks, k, {"SEMI", "LBRACE", "EQ"})
        sp == NextOf(toks, k, {"COLON_GT", "SPECIALIZES"})
    IN  IF sp >= end THEN <<>>
        ELSE WrittenNames(toks, sp + 1,
                          NextOf(toks, sp, {"SEMI", "LBRACE", "EQ", "COLON_GT_GT",
                                            "REDEFINES", "LBRACK"}),
                          <<>>, <<>>)

\* C27: the parser keeps the order of the source.  In the top-level list and
\* in every body, each element starts at a later token than the element
\* before it, and the specializes list of an element holds the qualified
\* names written after `:>` or `specializes`, in the order written.
C27_SourceOrder ==
    phase \in {"parsed", "done"} =>
        /\ \A s \in Scopes(file) : \A i \in 1..(Len(s) - 1) :
              FirstToken(p_tokens, s[i]) < FirstToken(p_tokens, s[i + 1])
        /\ \A e \in AllElements(file.elements) :
              e.specializes = WrittenSpecializes(p_tokens, FirstToken(p_tokens, e))

\* The parser has returned an element that specialises three names, one of
\* them qualified, and whose body holds three elements.
C27_Witness ==
    /\ phase = "parsed"
    /\ \E e \in AllElements(file.elements) :
          /\ Len(e.specializes) = 3
          /\ e.specializes[2] = <<"M",":",":","N">>
          /\ Len(e.body) = 3

-----------------------------------------------------------------------------
(* C29: is_def, kind and the import fields of an element.                  *)

\* The kinds built by the branches of _parse_element that never read `def`.
NeverDefKinds ==
    { <<"i","m","p","o","r","t">>, <<"d","o","c">>, <<"c","o","m","m","e","n","t">>, <<"r","e","q","u","i","r","e","_","c","o","n","s","t","r","a","i","n","t">>,
      <<"r","e","t","u","r","n","_","p","a","r","a","m">>, <<"p","a","r","a","m","e","t","e","r">>, <<"f","i","r","s","t">>, <<"t","h","e","n">> }

\* C29: in every tree the parser returns, an element has is_def true exactly
\* when its kind ends with `_def`; an element of kind import, doc, comment,
\* require_constraint, return_param, parameter, first or then has is_def
\* false; and an element that is not an import has no import_path and
\* import_star false.
C29_ElementFields ==
    phase \in {"parsed", "done"} =>
        \A e \in AllElements(file.elements) :
            /\ e.is_def <=> endswith(e.kind, <<"_","d","e","f">>)
            /\ e.kind \in NeverDefKinds => ~ e.is_def
            /\ e.kind # <<"i","m","p","o","r","t">> => (e.import_path = None /\ ~ e.import_star)

\* The parser has returned a use case definition whose body holds an import
\* with `*` and an import with a path.
C29_Witness ==
    /\ phase = "parsed"
    /\ \E e \in AllElements(file.elements) :
          /\ e.kind = <<"u","s","e","_","c","a","s","e","_","d","e","f">> /\ e.is_def
          /\ \E i, j \in 1..Len(e.body) :
                /\ e.body[i].kind = <<"i","m","p","o","r","t">> /\ e.body[i].import_star
                /\ e.body[j].kind = <<"i","m","p","o","r","t">> /\ e.body[j].import_path = <<"A",":",":","B">>

-----------------------------------------------------------------------------
(* C30: the severities and the ids of the registered rules.                *)

\* The ids passed to _diag by the rules of ALL_RULES.
EmittedRuleIds ==
    { "W001", "W002", "W003", "W010", "W011", "W020", "W021", "W022", "W023", "I001",
      "W030", "W031" }

====
